---- MODULE Spec2Model ----
(***************************************************************************)
(* A model of the recruiter-verification backend of cv-converter-agent:    *)
(*   - the conversation engine  (backend/apps/llm/services.py,             *)
(*     generate_recruiter_next_question) and the two views that call it;   *)
(*   - the interview store      (backend/apps/interview/views.py):         *)
(*     sessions, turns (question + response) and conversation papers.      *)
(* Strings are TLC strings; the text operations the code uses (lower,      *)
(* strip, substring test, startswith, replace) are computed character by   *)
(* character.                                                              *)
(***************************************************************************)
EXTENDS Integers, Sequences, FiniteSets, TLC

VARIABLES
    \* ---- conversation engine (one client conversation) ----
    apiKey,      \* OPENAI_API_KEY is configured
    eSection,    \* the "section" the client passes with its next request
    eHistory,    \* the "history" the client passes: sequence of [role, content]
    eLlm,        \* what the LLM service did in the last call
    eResult,     \* what the last call returned (or NoCall / Raised)
    eDriven,     \* the run started at the initial core_skills question and every
                 \* recruiter answer so far was exactly a completion phrase
    eVisited     \* the sections returned so far in such a run, in order

engineVars == <<apiKey, eSection, eHistory, eLlm, eResult, eDriven, eVisited>>

\* the client conversation alone (apiKey is shared with the answer classifier)
clientVars == <<eSection, eHistory, eLlm, eResult, eDriven, eVisited>>

VARIABLES
    \* ---- interview store (the database tables and the last HTTP exchange) ----
    sessions,       \* ConversationSession rows, in id order (id = position)
    questions,      \* ConversationQuestion rows, in id order (id = position)
    responses,      \* ConversationResponse rows, in creation order
    papers,         \* ConversationCompetencePaper rows (a set: rows can be deleted)
    nextPaperId,    \* the id the next ConversationCompetencePaper row gets
    now,            \* timezone.now(): the last timestamp handed out
    reply,          \* the response to the last request
    lastGenerated   \* per session: the content stored by its last generate-paper
                    \* request, and by the one before it, as long as no turn of the
                    \* session and no edit of its paper came after; else NoContent

storeVars == <<sessions, questions, responses, papers, nextPaperId, now, reply,
               lastGenerated>>

VARIABLES
    \* ---- CV formatting (one call of generate_structured_cv) ----
    cvText,      \* the text extracted from the uploaded CV
    cvLlm,       \* what the call of the local LLM came to
    cvResult,    \* what generate_structured_cv returned (NoCall before the call)
    \* ---- projection to the template fields (one call) ----
    recText,     \* the recommendation text before the limit is applied
    recResult    \* the recommendation handed to the template (NoCall before the call)

cvVars == <<cvText, cvLlm, cvResult, recText, recResult>>

VARIABLES
    \* ---- user accounts (apps.users) ----
    accounts,        \* the User rows: email, password, is_active
    refresh_tokens   \* the number of RefreshToken rows

userVars == <<accounts, refresh_tokens>>

VARIABLES
    \* ---- requests served at the same time ----
    inflight     \* the requests that have read the tables and not yet written

flightVars == <<inflight>>

vars == <<engineVars, storeVars, cvVars, userVars, flightVars>>

-----------------------------------------------------------------------------
(* Python string operations *)

\* str.lower() on one character
LowerOf ==
    [ A |-> "a", B |-> "b", C |-> "c", D |-> "d", E |-> "e", F |-> "f", G |-> "g",
      H |-> "h", I |-> "i", J |-> "j", K |-> "k", L |-> "l", M |-> "m", N |-> "n",
      O |-> "o", P |-> "p", Q |-> "q", R |-> "r", S |-> "s", T |-> "t", U |-> "u",
      V |-> "v", W |-> "w", X |-> "x", Y |-> "y", Z |-> "z" ]

LowerChar(c) == IF c \in DOMAIN LowerOf THEN LowerOf[c] ELSE c

RECURSIVE Lower(_)
\* str.lower(), computed by halves
Lower(s) ==
    IF Len(s) <= 1 THEN LowerChar(s)
    ELSE LET h == Len(s) \div 2
         IN  Lower(SubSeq(s, 1, h)) \o Lower(SubSeq(s, h + 1, Len(s)))

IsSpace(c) == c \in {" ", "\n", "\t", "\r"}

RECURSIVE LStrip(_)
LStrip(s) == IF s # "" /\ IsSpace(Head(s)) THEN LStrip(Tail(s)) ELSE s

RECURSIVE RStrip(_)
RStrip(s) ==
    IF s # "" /\ IsSpace(SubSeq(s, Len(s), Len(s)))
    THEN RStrip(SubSeq(s, 1, Len(s) - 1))
    ELSE s

\* str.strip()
Strip(s) == RStrip(LStrip(s))

\* sub in s
Contains(s, sub) ==
    \E i \in 1..(Len(s) - Len(sub) + 1) : SubSeq(s, i, i + Len(sub) - 1) = sub

\* s.startswith(p)
StartsWith(s, p) == Len(p) <= Len(s) /\ SubSeq(s, 1, Len(p)) = p

\* s.endswith(p)
EndsWith(s, p) == Len(p) <= Len(s) /\ SubSeq(s, Len(s) - Len(p) + 1, Len(s)) = p

RECURSIVE ReplaceChar(_, _, _)
\* s.replace(a, b) for a single character a, computed by halves
ReplaceChar(s, a, b) ==
    IF Len(s) <= 1 THEN (IF s = a THEN b ELSE s)
    ELSE LET h == Len(s) \div 2
         IN  ReplaceChar(SubSeq(s, 1, h), a, b) \o ReplaceChar(SubSeq(s, h + 1, Len(s)), a, b)

\* any(s == x for x in list)
InList(x, list) == \E i \in DOMAIN list : list[i] = x

\* list.index(x); the caller checks InList first (ValueError otherwise)
IndexOf(x, list) == CHOOSE i \in DOMAIN list : list[i] = x

-----------------------------------------------------------------------------
(* Conversation engine: generate_recruiter_next_question *)

completion_signals ==
    << "no", "nope", "nothing else", "that's all", "that is all",
       "that's enough", "that is enough", "no more", "nothing more",
       "that's it", "that is it", "no additional", "no other" >>

followup_questions ==
    << "do you have anything else", "anything else", "is there anything else",
       "anything more", "anything more to add", "is there anything more" >>

section_order ==
    << "introduction", "core_skills", "soft_skills", "languages", "education",
       "trainings_certifications", "technical_competencies", "project_experience",
       "additional_info" >>

\* fallback_by_section; the source writes the apostrophe of "Let's" / "candidate's"
\* as U+2019, written ' here
fallback_by_section ==
    [ core_skills |-> "Let's talk about the candidate's core skills. Which core skill from the competence paper would you like to confirm next?",
      soft_skills |-> "Now let's move to soft skills. Which soft skills from the competence paper should we confirm for this candidate?",
      languages |-> "Let's talk about languages. Which languages from the competence paper should we confirm for this candidate?",
      education |-> "Now let's move to education. Which degree or education entry from the competence paper should we confirm?",
      trainings_certifications |-> "Let's cover trainings and certifications. Which training or certification from the competence paper should we confirm?",
      technical_competencies |-> "Now let's move to technical competencies. Which tools or technologies from the competence paper should we confirm next?",
      project_experience |-> "Let's discuss project experience. Which project or role from the competence paper should we confirm now?",
      additional_info |-> "Do you have any additional information from the interview that's not in the CV or competence paper?" ]

AdditionalInfoQuestion ==
    "Is there any additional information from the interview that's not in the CV or competence paper?"

ForcedFollowupQuestion == "Got it. Do you have anything else?"

\* The values a call can produce, and the values of intermediate steps.
Result(q, s, cs, d) ==
    [kind |-> "result", question |-> q, section |-> s, complete_section |-> cs, done |-> d]

NoReturn == [kind |-> "none"]      \* the block did not return; control falls through
Raised   == [kind |-> "raised"]    \* the call raised to its caller
NoCall   == [kind |-> "nocall"]    \* no call has been made yet

RECURSIVE LastContent(_, _)
\* last_recruiter_answer / last_assistant_question: the stripped content of the
\* last history item whose normalised role is `role` and whose content is not empty
LastContent(history, role) ==
    IF history = << >> THEN ""
    ELSE LET item == history[Len(history)]
             r    == Lower(Strip(item.role))
             c    == Strip(item.content)
         IN  IF r = role /\ c # "" THEN c
             ELSE LastContent(SubSeq(history, 1, Len(history) - 1), role)

\* any(signal == a or a.startswith(signal + " ") or a == signal for signal in completion_signals)
IsOnlyCompletionSignal(answer_stripped) ==
    \E i \in DOMAIN completion_signals :
        \/ completion_signals[i] = answer_stripped
        \/ StartsWith(answer_stripped, completion_signals[i] \o " ")

\* any(signal in answer_lower for signal in completion_signals)
ContainsCompletionSignal(answer_lower) ==
    \E i \in DOMAIN completion_signals : Contains(answer_lower, completion_signals[i])

\* any(fq in question_lower for fq in followup_questions)
IsFollowupQuestion(question_lower) ==
    \E i \in DOMAIN followup_questions : Contains(question_lower, followup_questions[i])

CannedQuestion(next_section) ==
    "Based on your assessment, what is your experience with the candidate regarding their "
        \o ReplaceChar(next_section, "_", " ") \o "?"

\* try: idx = section_order.index(section); if idx < len - 1: return {...}
\* except ValueError: pass
AdvanceCanned(section) ==
    IF InList(section, section_order) /\ IndexOf(section, section_order) < Len(section_order)
    THEN LET next_section == section_order[IndexOf(section, section_order) + 1]
         IN  Result(CannedQuestion(next_section), next_section, FALSE, FALSE)
    ELSE NoReturn

\* the first of the results that is a return
FirstReturn(rs) ==
    IF \E i \in DOMAIN rs : rs[i] # NoReturn
    THEN rs[CHOOSE i \in DOMAIN rs : rs[i] # NoReturn /\ \A j \in 1..(i - 1) : rs[j] = NoReturn]
    ELSE NoReturn

\* "Check conversation state to determine next action"
CheckConversationState(section, last_recruiter_answer, last_assistant_question) ==
    IF last_recruiter_answer = "" \/ last_assistant_question = "" THEN NoReturn
    ELSE
    LET answer_lower   == Lower(last_recruiter_answer)
        question_lower == Lower(last_assistant_question)
        is_additional_info_followup ==
            /\ \/ Contains(question_lower, "additional information")
               \/ Contains(question_lower, "additional info")
            /\ section # "additional_info"
        is_followup_question == IsFollowupQuestion(question_lower)
        is_completion == IsOnlyCompletionSignal(Strip(answer_lower))
        afterAdditionalInfoFollowup ==
            IF is_additional_info_followup /\ is_completion
            THEN AdvanceCanned(section) ELSE NoReturn
        afterFollowup ==
            IF is_followup_question /\ section # "additional_info"
               /\ ~is_additional_info_followup /\ is_completion
            THEN AdvanceCanned(section) ELSE NoReturn
        afterInitial ==
            IF ~is_followup_question /\ section # "additional_info" /\ is_completion
            THEN AdvanceCanned(section) ELSE NoReturn
    IN  FirstReturn(<<afterAdditionalInfoFollowup, afterFollowup, afterInitial>>)

\* the same check passing only the answer "no"
AdditionalInfoCompletionOnNo(section, last_recruiter_answer) ==
    IF /\ section = "additional_info"
       /\ Strip(Lower(last_recruiter_answer)) = "no"
    THEN Result("", "additional_info", TRUE, TRUE)
    ELSE NoReturn

\* "Check if we're in additional_info section and the last answer indicates completion"
AdditionalInfoCompletion(section, last_recruiter_answer) ==
    IF /\ section = "additional_info"
       /\ last_recruiter_answer # ""
       /\ IsOnlyCompletionSignal(Strip(Lower(last_recruiter_answer)))
    THEN Result("", "additional_info", TRUE, TRUE)
    ELSE NoReturn

\* "Also check if last question was about additional_info and answer was completion signal"
AdditionalInfoQuestionCompletion(last_recruiter_answer, last_assistant_question) ==
    IF /\ last_assistant_question # ""
       /\ last_recruiter_answer # ""
       /\ \/ Contains(Lower(last_assistant_question), "additional information")
          \/ Contains(Lower(last_assistant_question), "additional_info")
       /\ IsOnlyCompletionSignal(Strip(Lower(last_recruiter_answer)))
    THEN Result("", "additional_info", TRUE, TRUE)
    ELSE NoReturn

\* "Check if recruiter just answered and force follow-up BEFORE calling AI"
ForceFollowup(section, last_recruiter_answer, last_assistant_question) ==
    IF last_recruiter_answer = "" \/ last_assistant_question = "" THEN NoReturn
    ELSE IF IsFollowupQuestion(Lower(last_assistant_question)) THEN NoReturn
    ELSE IF ContainsCompletionSignal(Lower(last_recruiter_answer))
    THEN IF InList(section, section_order)
            /\ IndexOf(section, section_order) < Len(section_order)
         THEN LET next_section == section_order[IndexOf(section, section_order) + 1]
              IN  IF next_section = "additional_info"
                  THEN Result(AdditionalInfoQuestion, next_section, FALSE, FALSE)
                  ELSE Result(CannedQuestion(next_section), next_section, FALSE, FALSE)
         ELSE NoReturn
    ELSE Result(ForcedFollowupQuestion, section, FALSE, FALSE)

\* What the LLM service can do in one call.  kind: "transport_error" (requests.post,
\* raise_for_status or resp.json() raised), "no_choices" (data["choices"][0]["message"]
\* ["content"] raised), "not_json" (json.loads raised), "not_object" (the content is
\* JSON but no object: a list, a string, a number, null) or "object".
\* For an object, question "" and section "" stand for a missing, null or empty field.
LlmObject(q, s, cs, d) ==
    [kind |-> "object", question |-> q, section |-> s, complete_section |-> cs, done |-> d]

LlmFailure(k) ==
    [kind |-> k, question |-> "", section |-> "", complete_section |-> FALSE, done |-> FALSE]

\* A variant of the last step that leaves done as it is when no fallback exists.
SynthesizeFallbackNeverDone(question, next_section, section, complete_section, done) ==
    LET fallback ==
            IF next_section \in DOMAIN fallback_by_section
            THEN fallback_by_section[next_section]
            ELSE IF section \in DOMAIN fallback_by_section
            THEN fallback_by_section[section]
            ELSE ""
    IN  Result(IF question = "" /\ ~done THEN fallback ELSE question,
               IF next_section # "" THEN next_section ELSE section,
               complete_section, done)

\* "If the model failed to provide a question but we are not truly done yet,
\* synthesize a simple, section-specific question", and the returned dict
SynthesizeFallback(question, next_section, section, complete_section, done) ==
    LET \* fallback_by_section.get(next_section) or fallback_by_section.get(section, "")
        fallback ==
            IF next_section \in DOMAIN fallback_by_section
            THEN fallback_by_section[next_section]
            ELSE IF section \in DOMAIN fallback_by_section
            THEN fallback_by_section[section]
            ELSE ""
        returned_section == IF next_section # "" THEN next_section ELSE section
    IN  IF question = "" /\ ~done
        THEN IF fallback # ""
             THEN Result(fallback, returned_section, complete_section, done)
             ELSE Result("", returned_section, TRUE, TRUE)
        ELSE Result(question, returned_section, complete_section, done)

\* "Server-side safety guardrails", from the parsed fields to the returned dict
Guardrails(section_in, parsed) ==
    LET question0     == Strip(parsed.question)
        next_section0 == Strip(IF parsed.section # "" THEN parsed.section ELSE section_in)
        complete_section == parsed.complete_section
        done0         == parsed.done
        section       == IF InList(section_in, section_order) THEN section_in ELSE "core_skills"
        idx           == IndexOf(section, section_order)
        \* if complete_section: always advance in the fixed order
        next_section1 ==
            IF complete_section
            THEN IF idx < Len(section_order) THEN section_order[idx + 1] ELSE "additional_info"
            ELSE next_section0
        question1 ==
            IF complete_section /\ question0 = ""
               /\ (idx >= Len(section_order) \/ section_order[idx + 1] = "additional_info")
            THEN AdditionalInfoQuestion
            ELSE question0
        \* force transition to additional_info after project_experience
        next_section ==
            IF section = "project_experience" /\ complete_section
               /\ next_section1 # "additional_info"
            THEN "additional_info" ELSE next_section1
        \* do not allow done outside additional_info
        done1 ==
            IF next_section # "additional_info" /\ section # "additional_info"
            THEN FALSE ELSE done0
    IN  IF ~(next_section # "additional_info" /\ section # "additional_info")
           /\ section = "additional_info" /\ done0
        THEN Result("", "additional_info", TRUE, TRUE)
        ELSE SynthesizeFallback(question1, next_section, section, complete_section, done1)

\* the call to the LLM service and the parsing of its response
LlmStep(section, llm) ==
    CASE llm.kind = "transport_error" -> Result("", section, TRUE, TRUE)
      [] llm.kind = "no_choices"      -> Result("", section, TRUE, TRUE)
      [] llm.kind = "not_object"      -> Raised      \* parsed.get: AttributeError
      [] llm.kind = "not_json"        -> Guardrails(section, LlmObject("", "", FALSE, FALSE))
      [] OTHER                        -> Guardrails(section, llm)

\* everything the function decides before it calls the LLM service: the result it
\* returns without calling it, or NoReturn
BeforeLlm(history, section, key) ==
    IF ~key THEN Result("", section, TRUE, TRUE)
    ELSE
    LET last_recruiter_answer   == LastContent(history, "recruiter")
        last_assistant_question == LastContent(history, "assistant")
    IN  FirstReturn(<<
            CheckConversationState(section, last_recruiter_answer, last_assistant_question),
            AdditionalInfoCompletion(section, last_recruiter_answer),
            AdditionalInfoQuestionCompletion(last_recruiter_answer, last_assistant_question),
            ForceFollowup(section, last_recruiter_answer, last_assistant_question) >>)

\* the result of a call, given what was decided before the LLM call
AfterLlm(early, section, llm) ==
    IF early # NoReturn THEN early ELSE LlmStep(section, llm)

generate_recruiter_next_question(history, section, llm, key) ==
    AfterLlm(BeforeLlm(history, section, key), section, llm)

-----------------------------------------------------------------------------
(* The engine's callers and its inputs *)

MaxHistory == 2        \* the client sends at most this many history items
MaxDrivenCalls == 10   \* calls followed in a run driven by completion phrases

AssistantItem(q) == [role |-> "assistant", content |-> q]
RecruiterItem(a) == [role |-> "recruiter", content |-> a]

InitialCoreQuestion == CannedQuestion("core_skills")

\* questions the assistant may have asked last, before the first modelled call
InitQuestions ==
    { InitialCoreQuestion,
      ForcedFollowupQuestion,
      AdditionalInfoQuestion,
      "Any additional info, or anything else?" }

\* what the recruiter may say
RecruiterAnswers ==
    { "no", "That's all", "nothing else thanks",
      "no, but they also know Rust", "They know Rust well", "Python and Django" }

\* sections a client may pass: the engine's own, one the turn store also accepts,
\* and one nobody knows
ClientSections ==
    { section_order[i] : i \in DOMAIN section_order } \cup {"recommendations", "hobbies"}

LlmQuestions == {"", "Which framework did they use?"}
LlmSections  == {"", "soft_skills", "additional_info", "recommendations"}

LlmOutcomes ==
    { LlmFailure(k) : k \in {"transport_error", "no_choices", "not_json", "not_object"} }
    \cup { LlmObject(q, s, cs, d) :
             q \in LlmQuestions, s \in LlmSections, cs \in BOOLEAN, d \in BOOLEAN }

NoLlm == LlmFailure("not_called")

\* a history whose roles and contents need normalising, and which ends with
\* items the engine must skip
UntidyHistory(q, a) ==
    << [role |-> " Assistant ", content |-> "  " \o q],
       [role |-> "RECRUITER", content |-> a \o " "],
       [role |-> "system", content |-> "ignored"],
       [role |-> "recruiter", content |-> "  "] >>

InitHistories ==
    { << >> }
    \cup { <<AssistantItem(q)>> : q \in InitQuestions }
    \cup { <<AssistantItem(q), RecruiterItem(a)>> : q \in InitQuestions, a \in RecruiterAnswers }
    \cup { UntidyHistory(InitialCoreQuestion, a) : a \in {"No", "Python and Django"} }

\* the trimmed, lower-cased answer is exactly one of the completion phrases
IsExactCompletionPhrase(a) == InList(Lower(Strip(a)), completion_signals)

\* no request has been made yet
NoReply == [code |-> 0]

\* lastGenerated: nothing on record for the session / the content a generate-paper
\* request stored, with what was on record when that request came
NoContent == [stored |-> FALSE]
Generated(content, before) ==
    [ stored |-> TRUE, content |-> content,
      before |-> IF before.stored THEN [stored |-> TRUE, content |-> before.content]
                 ELSE NoContent ]

\* the tables as migrations leave them
EmptyStore ==
    /\ sessions = << >>
    /\ questions = << >>
    /\ responses = << >>
    /\ papers = {}
    /\ nextPaperId = 1
    /\ now = 0
    /\ reply = NoReply
    /\ lastGenerated = << >>

\* no CV is being formatted or projected
CvIdle ==
    /\ cvText = ""
    /\ cvLlm = [kind |-> "not_called"]
    /\ cvResult = NoCall
    /\ recText = ""
    /\ recResult = NoCall

\* nobody has signed up
NoAccounts ==
    /\ accounts = {}
    /\ refresh_tokens = 0

\* every request is served alone, from its first read to its last write
NoneInFlight == inflight = << >>

EngineInit ==
    /\ EmptyStore
    /\ CvIdle
    /\ NoAccounts
    /\ NoneInFlight
    /\ apiKey \in BOOLEAN
    /\ eSection \in ClientSections
    /\ eHistory \in InitHistories
    /\ eLlm = NoLlm
    /\ eResult = NoCall
    /\ eDriven = (apiKey /\ eSection = "core_skills"
                    /\ eHistory = <<AssistantItem(InitialCoreQuestion)>>)
    /\ eVisited = << >>

\* the bookkeeping of a driven run, after a call that returned `result`
Track(driven, result) ==
    /\ eDriven' = (driven /\ result.kind = "result" /\ Len(eVisited) < MaxDrivenCalls)
    /\ eVisited' = IF eDriven' THEN Append(eVisited, result.section) ELSE << >>

\* the LLM outcomes a call can meet: one of LlmOutcomes if it calls the service
Met(early) == IF early = NoReturn THEN LlmOutcomes ELSE {NoLlm}

\* RecruiterAssistantQuestionView.post: the next question for the history as sent
AskNextQuestion ==
    /\ eResult = NoCall
    /\ LET section == IF eSection = "" THEN "core_skills" ELSE eSection
           early   == BeforeLlm(eHistory, section, apiKey)
       IN  \E llm \in Met(early) :
             /\ eResult' = AfterLlm(early, section, llm)
             /\ eLlm' = llm
             /\ Track(FALSE, eResult')
    /\ UNCHANGED <<apiKey, eSection, eHistory, storeVars, cvVars, userVars, flightVars>>

\* voice_to_question: the transcribed answer is appended to the history, then the
\* next question is generated (an empty transcription returns before that)
VoiceToQuestion ==
    /\ eResult = NoCall
    /\ Len(eHistory) < MaxHistory
    /\ \E a \in RecruiterAnswers :
         LET transcribed_text == Strip(a)
             updated_history  == Append(eHistory, RecruiterItem(transcribed_text))
             early == BeforeLlm(updated_history, eSection, apiKey)
         IN  /\ transcribed_text # ""
             /\ eHistory' = updated_history
             /\ \E llm \in Met(early) :
                   /\ eResult' = AfterLlm(early, eSection, llm)
                   /\ eLlm' = llm
                   /\ Track(eDriven /\ IsExactCompletionPhrase(a), eResult')
    /\ UNCHANGED <<apiKey, eSection, storeVars, cvVars, userVars, flightVars>>

\* The client takes the returned question and section over for its next request:
\* it keeps the most recent history items, the returned question last.
ClientAdopt ==
    /\ eResult.kind = "result"
    /\ ~eResult.done
    /\ LET h == Append(eHistory, AssistantItem(eResult.question))
       IN  eHistory' = IF Len(h) > MaxHistory - 1
                       THEN SubSeq(h, Len(h) - MaxHistory + 2, Len(h))
                       ELSE h
    /\ eSection' = eResult.section
    /\ eResult' = NoCall
    /\ eLlm' = NoLlm
    /\ UNCHANGED <<apiKey, eDriven, eVisited, storeVars, cvVars, userVars, flightVars>>

EngineNext == AskNextQuestion \/ VoiceToQuestion \/ ClientAdopt

SpecEngine == EngineInit /\ [][EngineNext]_vars

-----------------------------------------------------------------------------
(* Claims about the conversation engine, checked under SpecEngine *)

\* a call has been made and this state holds its arguments and its outcome
Called == eResult.kind \in {"result", "raised"}

LastAnswer   == LastContent(eHistory, "recruiter")
LastQuestion == LastContent(eHistory, "assistant")

\* the section list of the specification's SectionSequencer
SequencerOrder ==
    << "introduction", "core_skills", "soft_skills", "languages", "education",
       "trainings_certifications", "technical_competencies", "project_experience",
       "recommendations", "additional_info" >>

\* the trimmed, lower-cased answer equals a completion phrase or starts with one
StartsWithCompletionPhrase(a) ==
    \E i \in DOMAIN completion_signals :
        StartsWith(Strip(Lower(a)), completion_signals[i])

\* C1: when the LLM returned a response and the current section is not
\* additional_info, the returned done is false.
C1_DoneOnlyInAdditionalInfo ==
    (eResult.kind = "result" /\ eLlm.kind = "object" /\ eSection # "additional_info")
        => ~eResult.done

\* C6: after a section's initial question (no follow-up prompt) and an answer that
\* neither equals nor starts with a completion phrase, the call returns the forced
\* follow-up with the section unchanged, complete_section and done false.
C6_ForcedFollowupAfterInitial ==
    ( /\ Called
      /\ apiKey
      /\ LastQuestion # ""
      /\ ~IsFollowupQuestion(Lower(LastQuestion))
      /\ LastAnswer # ""
      /\ ~StartsWithCompletionPhrase(LastAnswer) )
        => eResult = Result(ForcedFollowupQuestion, eSection, FALSE, FALSE)

\* C7: wherever the engine itself advances the section or finishes the flow on
\* the recruiter's answer, that answer equals a completion phrase or starts with
\* one; containing a phrase somewhere inside a longer answer is not enough.
C7_CompletionOnlyByPrefix ==
    ( /\ eResult.kind = "result"
      /\ apiKey
      /\ eLlm = NoLlm
      /\ LastAnswer # ""
      /\ (eResult.done \/ eResult.section # eSection) )
        => StartsWithCompletionPhrase(LastAnswer)

\* C8: after a follow-up prompt and a completion signal, for every current section
\* of the sequencer other than additional_info, the call returns the section that
\* follows the current one in the sequencer's order, with its canned initial
\* question, complete_section and done false.
C8_AdvanceAfterFollowup ==
    ( /\ Called
      /\ apiKey
      /\ LastQuestion # ""
      /\ IsFollowupQuestion(Lower(LastQuestion))
      /\ LastAnswer # ""
      /\ IsOnlyCompletionSignal(Strip(Lower(LastAnswer)))
      /\ InList(eSection, SequencerOrder)
      /\ eSection # "additional_info" )
        => LET next == SequencerOrder[IndexOf(eSection, SequencerOrder) + 1]
           IN  eResult = Result(CannedQuestion(next), next, FALSE, FALSE)

\* C9: in a run driven from the initial core_skills question with a completion
\* phrase as every answer, additional_info is returned only after recommendations.
C9_RecommendationsBeforeAdditionalInfo ==
    (eDriven /\ InList("additional_info", eVisited))
        => InList("recommendations", eVisited)

\* C10: every result with done false carries a non-empty question.
C10_QuestionUnlessDone ==
    (eResult.kind = "result" /\ ~eResult.done) => eResult.question # ""

\* C10 witness: the LLM response had no question and the call still returned one.
C10_Witness ==
    /\ eResult.kind = "result"
    /\ eLlm.kind = "object"
    /\ eLlm.question = ""
    /\ ~eResult.done
    /\ eResult.question # ""

-----------------------------------------------------------------------------
(* The interview store: users, CVs and original competence papers are fixed  *)
(* rows; sessions, turns and conversation papers are written by the views.   *)

MaxSessions == 2      \* ConversationSession rows the model lets exist
MaxTurns    == 2      \* ConversationQuestion rows the model lets exist
MaxPapers   == 2      \* ConversationCompetencePaper ids the model hands out
MaxClock    == 3      \* timestamps the model hands out

\* request.user: two regular users and one with is_staff
Users == {"alice", "bob", "admin"}
is_staff(user) == user = "admin"

\* CV rows (pk -> user) and CompetencePaper rows (pk -> cv)
CVs == {1, 2}
cv_user == <<"alice", "bob">>
CompetencePapers == {1, 2}
paper_cv == <<1, 1>>

\* a request field that is absent or not an int
NotInt == -1
\* a foreign key that is NULL, a timestamp that is None
Null == 0

\* the ids a request may carry: the rows of a table, or no int at all
RequestIds(rows) == rows \cup {NotInt}

SessionIds == 1..Len(sessions)

\* ConversationSession(cv, original_competence_paper, status, ...) as stored
SessionRow(cv, paper, status, created_at) ==
    [ cv |-> cv,
      original_competence_paper |-> paper,
      conversation_competence_paper |-> Null,
      status |-> status,
      created_at |-> created_at,
      completed_at |-> Null ]

\* the response of a view: HTTP status and body
Reply(code, body) == [code |-> code, body |-> body]
Detail == [detail |-> TRUE]

\* the same check letting every user through
MayWriteAnyone(user, session) == TRUE

\* session.cv.user != request.user and not request.user.is_staff
MayWrite(user, session) == cv_user[session.cv] = user \/ is_staff(user)

\* the largest element of a non-empty set of integers
Max(S) == CHOOSE x \in S : \A y \in S : y <= x

\* the same lookup excluding every status but in_progress
OpenSessionInProgressOnly(cv, paper) ==
    LET open == { i \in SessionIds :
                    /\ sessions[i].cv = cv
                    /\ sessions[i].original_competence_paper = paper
                    /\ sessions[i].status = "in_progress" }
    IN  IF open = {} THEN Null
        ELSE CHOOSE i \in open :
                 \A j \in open : sessions[j].created_at <= sessions[i].created_at

\* the same lookup without the exclude(): the newest session of the pair
OpenSessionAnyStatus(cv, paper) ==
    LET all == { i \in SessionIds :
                    /\ sessions[i].cv = cv
                    /\ sessions[i].original_competence_paper = paper }
    IN  IF all = {} THEN Null
        ELSE CHOOSE i \in all :
                 \A j \in all : sessions[j].created_at <= sessions[i].created_at

\* ConversationSession.objects.filter(cv, original_competence_paper)
\*     .exclude(status="completed").order_by("-created_at").first()
OpenSession(cv, paper) ==
    LET open == { i \in SessionIds :
                    /\ sessions[i].cv = cv
                    /\ sessions[i].original_competence_paper = paper
                    /\ sessions[i].status # "completed" }
    IN  IF open = {} THEN Null
        ELSE CHOOSE i \in open :
                 \A j \in open : sessions[j].created_at <= sessions[i].created_at

\* the store before the first request: empty, or holding one session that was
\* added through the admin site and so has the model's default status
StoreInit ==
    /\ questions = << >>
    /\ responses = << >>
    /\ papers = {}
    /\ nextPaperId = 1
    /\ reply = NoReply
    /\ \/ /\ sessions = << >>
          /\ now = 0
          /\ lastGenerated = << >>
       \/ /\ sessions = << SessionRow(1, 1, "pending", 1) >>
          /\ now = 1
          /\ lastGenerated = << NoContent >>

\* the client conversation plays no part in the store's behaviour
IdleClient ==
    /\ eSection = "core_skills"
    /\ eHistory = << >>
    /\ eLlm = NoLlm
    /\ eResult = NoCall
    /\ eDriven = FALSE
    /\ eVisited = << >>

Init ==
    /\ apiKey \in BOOLEAN
    /\ IdleClient
    /\ CvIdle
    /\ NoAccounts
    /\ NoneInFlight
    /\ StoreInit

\* ConversationSessionStartView.post, for one request
StartSession(user, cv_id, paper_id) ==
    LET session == OpenSession(cv_id, paper_id)
    IN
    /\ IF cv_id = NotInt \/ paper_id = NotInt
       THEN /\ reply' = Reply(400, Detail)
            /\ UNCHANGED <<sessions, now, lastGenerated>>
       ELSE IF \/ cv_id \notin CVs
               \/ (~is_staff(user) /\ cv_user[cv_id] # user)
               \/ paper_id \notin CompetencePapers
               \/ paper_cv[paper_id] # cv_id
       THEN /\ reply' = Reply(404, Detail)
            /\ UNCHANGED <<sessions, now, lastGenerated>>
       ELSE IF session = Null
       THEN /\ Len(sessions) < MaxSessions
            /\ now < MaxClock
            /\ now' = now + 1
            /\ sessions' = Append(sessions,
                                  SessionRow(cv_id, paper_id, "in_progress", now'))
            /\ lastGenerated' = Append(lastGenerated, NoContent)
            /\ reply' = Reply(200, [session_id |-> Len(sessions'),
                                             status |-> "in_progress"])
       ELSE /\ sessions' =
                  IF sessions[session].status # "in_progress"
                  THEN [sessions EXCEPT ![session].status = "in_progress",
                                        ![session].completed_at = Null]
                  ELSE sessions
            /\ reply' = Reply(200, [session_id |-> session,
                                             status |-> sessions'[session].status])
            /\ UNCHANGED <<now, lastGenerated>>
    /\ UNCHANGED <<questions, responses, papers, nextPaperId, apiKey, clientVars, cvVars, userVars, flightVars>>

ConversationSessionStartView ==
    \E user \in Users, cv_id \in RequestIds(CVs), paper_id \in RequestIds(CompetencePapers) :
        StartSession(user, cv_id, paper_id)
-----------------------------------------------------------------------------
(* Answer classifier: classify_recruiter_answer *)

\* str.upper() on one character
UpperOf ==
    [ a |-> "A", b |-> "B", c |-> "C", d |-> "D", e |-> "E", f |-> "F", g |-> "G",
      h |-> "H", i |-> "I", j |-> "J", k |-> "K", l |-> "L", m |-> "M", n |-> "N",
      o |-> "O", p |-> "P", q |-> "Q", r |-> "R", s |-> "S", t |-> "T", u |-> "U",
      v |-> "V", w |-> "W", x |-> "X", y |-> "Y", z |-> "Z" ]

UpperChar(c) == IF c \in DOMAIN UpperOf THEN UpperOf[c] ELSE c

\* a character above \x7F: the tilde stands for it, and no modelled text uses the
\* tilde itself
NonAscii == "~"

\* the characters \x00-\x7F that the modelled texts use
AsciiChars ==
    " \n\t\r!\"#$%&'()*+,-./0123456789:;<=>?@[\\]^_{|}"
      \o "abcdefghijklmnopqrstuvwxyzABCDEFGHIJKLMNOPQRSTUVWXYZ"

IsAscii(c) == Contains(AsciiChars, c)

\* the character of s at position i (1-based), "" outside s
CharAt(s, i) == IF i >= 1 /\ i <= Len(s) THEN SubSeq(s, i, i) ELSE ""

\* the first position >= from where sub occurs in s, 0 if none (str.find + 1)
FindFrom(s, sub, from) ==
    LET at == { i \in from..(Len(s) - Len(sub) + 1) : SubSeq(s, i, i + Len(sub) - 1) = sub }
    IN  IF at = {} THEN 0 ELSE CHOOSE i \in at : \A j \in at : i <= j

RECURSIVE Replace(_, _, _)
\* s.replace(old, new) for a non-empty old: left to right, not overlapping
Replace(s, old, new) ==
    LET i == FindFrom(s, old, 1)
    IN  IF i = 0 THEN s
        ELSE SubSeq(s, 1, i - 1) \o new \o Replace(SubSeq(s, i + Len(old), Len(s)), old, new)

\* len(re.compile(r'[^\x00-\x7F]+').findall(answer)): the runs of non-ASCII characters
NonEnglishRuns(answer) ==
    Cardinality({ i \in 1..Len(answer) :
                    /\ ~IsAscii(CharAt(answer, i))
                    /\ (i = 1 \/ IsAscii(CharAt(answer, i - 1))) })

\* non_english_chars > 0 and non_english_chars > len(answer) * 0.3
LooksNonEnglish(answer) ==
    /\ NonEnglishRuns(answer) > 0
    /\ 10 * NonEnglishRuns(answer) > 3 * Len(answer)

\* the dict classify_recruiter_answer returns
Verdict(status, confidence_level, extracted_skills, notes) ==
    [ kind |-> "verdict",
      status |-> status,
      confidence_level |-> confidence_level,
      extracted_skills |-> extracted_skills,
      notes |-> notes ]

negative_tokens    == << "no", "not really", "don't think so", "do not think so" >>
affirmative_tokens == << "yes", "yeah", "yep", "they do", "they have", "correct" >>

\* any(x in text for x in list)
ContainsAny(text, list) == \E i \in DOMAIN list : Contains(text, list[i])

\* the rule-based classification, used without an API key and after a failed call
HeuristicVerdict(answer, section_key, notes) ==
    LET lowered == Lower(answer)
        status  == IF section_key = "additional_info" THEN "new_skill"
                   ELSE IF ContainsAny(lowered, negative_tokens) THEN "not_confirmed"
                   ELSE IF ContainsAny(lowered, affirmative_tokens) THEN "confirmed"
                   ELSE "partially_confirmed"
    IN  Verdict(status, "medium", << >>, notes)

classify_question_indicators ==
    << "based on your assessment", "what is your experience", "what can you tell me",
       "do you have anything else", "is there anything else", "anything more",
       "let's talk about", "now let's move", "which", "should we confirm",
       "got it", "alright", "perfect", "i see" >>

classify_completion_signals ==
    << "no", "nope", "nothing else", "that's all", "that is all",
       "that's enough", "that is enough", "no more", "nothing more",
       "that's it", "that is it", "no additional", "no other" >>

soft_skill_names ==
    << "Communication", "Teamwork", "Leadership", "Problem Solving",
       "Adaptability", "Time Management", "Creativity", "Work Ethic" >>

soft_skill_keywords ==
    << << "communicative", "communication", "communicates", "communicating", "good communication" >>,
       << "team", "teamwork", "works well in a team", "team player", "collaborative", "collaboration" >>,
       << "leader", "leadership", "leads", "leading" >>,
       << "problem solving", "problem-solving", "solves problems", "analytical" >>,
       << "adaptable", "adaptability", "flexible", "flexibility" >>,
       << "time management", "manages time", "punctual", "punctuality" >>,
       << "creative", "creativity", "innovative", "innovation" >>,
       << "work ethic", "hardworking", "dedicated", "dedication", "reliable" >> >>

common_phrases ==
    << "the candidate", "they are", "they're", "the person", "he is", "she is", "he's", "she's" >>

RECURSIVE StripAll(_)
\* [s.strip() for s in list]
StripAll(list) ==
    IF list = << >> THEN << >> ELSE <<Strip(Head(list))>> \o StripAll(Tail(list))

\* cleaned_skills: the stripped, non-empty strings of the LLM's extracted_skills that
\* do not look like a question or a follow-up phrase and have at least 2 characters
CleanedSkills(extracted) ==
    LET Keep(s_clean) ==
            /\ s_clean # ""
            /\ ~ContainsAny(Lower(s_clean), classify_question_indicators)
            /\ ~EndsWith(s_clean, "?")
            /\ ~(Len(s_clean) < 2)
    IN  SelectSeq(StripAll(extracted), Keep)

RECURSIVE RemoveCommonPhrases(_, _)
\* for phrase in [...]: cleaned_answer = cleaned_answer.replace(phrase, "").strip()
RemoveCommonPhrases(cleaned_answer, i) ==
    IF i > Len(common_phrases) THEN cleaned_answer
    ELSE RemoveCommonPhrases(Strip(Replace(cleaned_answer, common_phrases[i], "")), i + 1)

\* cleaned_answer[0].upper() + cleaned_answer[1:]
Capitalize(s) == UpperChar(CharAt(s, 1)) \o SubSeq(s, 2, Len(s))

\* the soft-skill extraction from the answer text itself
SoftSkillsFromAnswer(answer) ==
    LET answer_lower == Lower(answer)
        Found(i) == ContainsAny(answer_lower, soft_skill_keywords[i])
        hit == SelectSeq(<<1, 2, 3, 4, 5, 6, 7, 8>>, Found)
        extracted_soft_skills == [k \in DOMAIN hit |-> soft_skill_names[hit[k]]]
        cleaned_answer == RemoveCommonPhrases(Strip(answer), 1)
    IN  IF extracted_soft_skills # << >> THEN extracted_soft_skills
        ELSE IF cleaned_answer # "" THEN << Capitalize(cleaned_answer) >>
        ELSE << >>

\* what the chat-completions call of the classifier can come to
ClsFailure == [kind |-> "failure"]        \* any exception inside the try block
ClsNotObject == [kind |-> "not_object"]   \* content is JSON but not an object
ClsObject(status, confidence_level, extracted_skills, notes) ==
    [ kind |-> "object",
      status |-> status,
      confidence_level |-> confidence_level,
      extracted_skills |-> extracted_skills,
      notes |-> notes ]

\* the same without the promotion of low confidence
ClassifyParsedKeepingLow(answer, section_key, parsed) ==
    LET status1 ==
            LET s == Strip(parsed.status)
            IN  IF s \in {"confirmed", "partially_confirmed", "not_confirmed", "new_skill"}
                THEN s ELSE "partially_confirmed"
        confidence1 ==
            LET c == Lower(Strip(parsed.confidence_level))
            IN  IF c \in {"high", "medium", "low"} THEN c ELSE "medium"
        confidence2 ==
            IF section_key = "soft_skills" /\ confidence1 = "medium" THEN "high"
            ELSE confidence1
        cleaned1 == CleanedSkills(parsed.extracted_skills)
        notes == Strip(parsed.notes)
        \* additional_info: completion phrases are no skills
        biased == section_key = "additional_info" /\ cleaned1 # << >>
                     /\ status1 # "not_confirmed"
        filtered_skills ==
            LET NotSignal(skill) == ~InList(Strip(Lower(skill)), classify_completion_signals)
            IN  SelectSeq(cleaned1, NotSignal)
        cleaned2 == IF biased THEN filtered_skills ELSE cleaned1
        status2  == IF ~biased THEN status1
                    ELSE IF filtered_skills # << >> THEN "new_skill" ELSE "not_confirmed"
        \* soft_skills: fall back on the answer text
        cleaned3 ==
            IF /\ section_key = "soft_skills"
               /\ cleaned2 = << >>
               /\ status2 \in {"confirmed", "partially_confirmed"}
            THEN SoftSkillsFromAnswer(answer)
            ELSE cleaned2
        \* accepted verdicts are never stored with low confidence
        confidence3 ==
            IF status2 \in {"confirmed", "partially_confirmed", "new_skill"}
            THEN LET c == confidence2
                 IN  IF section_key = "soft_skills" /\ cleaned3 # << >>
                          /\ c \in {"medium", "low"}
                     THEN "high" ELSE c
            ELSE confidence2
    IN  Verdict(status2, confidence3, cleaned3, notes)

\* the part of classify_recruiter_answer after a JSON object was parsed
ClassifyParsed(answer, section_key, parsed) ==
    LET status1 ==
            LET s == Strip(parsed.status)
            IN  IF s \in {"confirmed", "partially_confirmed", "not_confirmed", "new_skill"}
                THEN s ELSE "partially_confirmed"
        confidence1 ==
            LET c == Lower(Strip(parsed.confidence_level))
            IN  IF c \in {"high", "medium", "low"} THEN c ELSE "medium"
        confidence2 ==
            IF section_key = "soft_skills" /\ confidence1 = "medium" THEN "high"
            ELSE confidence1
        cleaned1 == CleanedSkills(parsed.extracted_skills)
        notes == Strip(parsed.notes)
        \* additional_info: completion phrases are no skills
        biased == section_key = "additional_info" /\ cleaned1 # << >>
                     /\ status1 # "not_confirmed"
        filtered_skills ==
            LET NotSignal(skill) == ~InList(Strip(Lower(skill)), classify_completion_signals)
            IN  SelectSeq(cleaned1, NotSignal)
        cleaned2 == IF biased THEN filtered_skills ELSE cleaned1
        status2  == IF ~biased THEN status1
                    ELSE IF filtered_skills # << >> THEN "new_skill" ELSE "not_confirmed"
        \* soft_skills: fall back on the answer text
        cleaned3 ==
            IF /\ section_key = "soft_skills"
               /\ cleaned2 = << >>
               /\ status2 \in {"confirmed", "partially_confirmed"}
            THEN SoftSkillsFromAnswer(answer)
            ELSE cleaned2
        \* accepted verdicts are never stored with low confidence
        confidence3 ==
            IF status2 \in {"confirmed", "partially_confirmed", "new_skill"}
            THEN LET c == IF confidence2 = "low" THEN "medium" ELSE confidence2
                 IN  IF section_key = "soft_skills" /\ cleaned3 # << >>
                          /\ c \in {"medium", "low"}
                     THEN "high" ELSE c
            ELSE confidence2
    IN  Verdict(status2, confidence3, cleaned3, notes)

classify_recruiter_answer(question_text, answer_text, section, llm, key) ==
    LET answer      == Strip(answer_text)
        section_key == Lower(Strip(section))
    IN  IF answer = ""
        THEN Verdict("not_confirmed", "low", << >>, "Empty or missing answer.")
        ELSE IF LooksNonEnglish(answer)
        THEN Verdict("not_confirmed", "low", << >>,
                     "Answer appears to be in a different language or unclear.")
        ELSE IF ~key
        THEN HeuristicVerdict(answer, section_key,
                              "Rule-based classification (no OpenAI API).")
        ELSE IF llm.kind = "failure"
        THEN HeuristicVerdict(answer, section_key,
                              "Heuristic classification after OpenAI failure.")
        ELSE IF llm.kind = "not_object"
        THEN Raised
        ELSE ClassifyParsed(answer, section_key, llm)

\* whether classify_recruiter_answer calls the LLM service for this answer
ClassifierCallsLlm(answer_text, key) ==
    LET answer == Strip(answer_text)
    IN  answer # "" /\ ~LooksNonEnglish(answer) /\ key

-----------------------------------------------------------------------------
(* ConversationTurnView *)

SECTION_CATEGORY_MAP ==
    [ core_skills |-> "skill",
      soft_skills |-> "skill",
      languages |-> "language",
      education |-> "education",
      trainings_certifications |-> "training",
      technical_competencies |-> "skill",
      project_experience |-> "project",
      recommendations |-> "recommendation",
      additional_info |-> "discovery" ]

\* s[:n]
Prefix(s, n) == IF Len(s) <= n THEN s ELSE SubSeq(s, 1, n)

\* the body of a turn request, as the client sends it
TurnData(section, phase, question_text, answer_text) ==
    [ section |-> section, phase |-> phase,
      question_text |-> question_text, answer_text |-> answer_text ]

JavaQuestion == "The competence paper lists Java. Is it correct?"

\* the turns the modelled client sends: a confirmed item, a denied item,
\* an unknown section and a missing section
TurnInputs ==
    { TurnData("core_skills", "validation", JavaQuestion, "Yes, they have used it "),
      TurnData(" core_skills", "", " " \o JavaQuestion, "No, not at all"),
      TurnData("hobbies", "validation", JavaQuestion, "Chess"),
      TurnData("  ", "validation", JavaQuestion, "yes") }

\* what the classifier's LLM call can come to
ClsOutcomes ==
    { ClsFailure,
      ClsNotObject,
      ClsObject("confirmed", "High", << " Java ", "Which framework?" >>, "clear yes") }

\* a turn of a stored log: the request and the LLM outcome its classification met
LoggedTurn(data, llm) == [data |-> data, llm |-> llm]

\* the turns the logs handed to generate-paper are made of: the same skill in two
\* spellings and in two sections, a denied item, an item the LLM extracted from a
\* denied answer, two spellings in one answer, and an answer without any item
PaperTurns ==
    { LoggedTurn(TurnData("core_skills", "validation", JavaQuestion, "Yes, they have used it"),
                 ClsObject("confirmed", "high", << " Java ", "Which framework?" >>, "")),
      LoggedTurn(TurnData("core_skills", "validation",
                          "The competence paper lists JAVA. Is it correct?", "yes"),
                 ClsFailure),
      LoggedTurn(TurnData("core_skills", "validation", JavaQuestion, "No, not at all"),
                 ClsFailure),
      LoggedTurn(TurnData("soft_skills", "validation", CannedQuestion("soft_skills"),
                          "They rarely speak up"),
                 ClsObject("not_confirmed", "low", << "Kotlin" >>, "")),
      LoggedTurn(TurnData("additional_info", "discovery", ForcedFollowupQuestion,
                          "They also speak German"),
                 ClsObject("confirmed", "medium", << "German", "german " >>, "")),
      LoggedTurn(TurnData("additional_info", "discovery", ForcedFollowupQuestion, "yes"),
                 ClsFailure),
      LoggedTurn(TurnData("technical_competencies", "validation",
                          "Has the candidate worked with java as listed?", "Yes"),
                 ClsFailure) }

\* the turns of the logs whose paper is exported: a plain item, items with a
\* hyphen and a slash, a recommendation, a note and a project given as tagged items
ExportTurns ==
    { LoggedTurn(TurnData("core_skills", "validation", JavaQuestion, "Yes, they have used it"),
                 ClsObject("confirmed", "high", << " Java " >>, "")),
      LoggedTurn(TurnData("technical_competencies", "validation",
                          "Has the candidate worked with java as listed?", "Yes, and more"),
                 ClsObject("confirmed", "high", << "Object-oriented design", "CI/CD" >>, "")),
      LoggedTurn(TurnData("recommendations", "discovery", CannedQuestion("recommendations"),
                          "Strong hire, very reliable"),
                 ClsFailure),
      LoggedTurn(TurnData("additional_info", "discovery", ForcedFollowupQuestion,
                          "They also speak German"),
                 ClsObject("confirmed", "medium", << "German", "german " >>, "")),
      LoggedTurn(TurnData("project_experience", "validation", CannedQuestion("project_experience"),
                          "They built the billing API as lead developer"),
                 ClsObject("confirmed", "high",
                           << "ROLE: Lead developer", "DESC: Built the billing API",
                              "TIME: 2020 to 2022", "Tester at Acme" >>, "")) }

NoCls == [kind |-> "not_called"]

\* the verdict of every modelled turn under every LLM outcome it can meet, with
\* and without an API key
Classified ==
    UNION { { [ key |-> key, data |-> data, llm |-> llm,
                verdict |-> classify_recruiter_answer(Strip(data.question_text),
                                Strip(data.answer_text), Strip(data.section), llm, key) ] :
              llm \in (IF ClassifierCallsLlm(Strip(data.answer_text), key)
                       THEN ClsOutcomes ELSE {NoCls}) } :
            key \in BOOLEAN, data \in TurnInputs }

\* ConversationQuestion as stored
QuestionRow(session, section, category, topic, question_text, question_order, phase) ==
    [ session |-> session, section |-> section, category |-> category,
      topic |-> topic, question_text |-> question_text,
      question_order |-> question_order, phase |-> phase ]

\* ConversationResponse as stored
ResponseRow(question, answer_text, status, confidence_level, extracted_skills, notes) ==
    [ question |-> question, answer_text |-> answer_text, status |-> status,
      confidence_level |-> confidence_level,
      extracted_skills |-> extracted_skills, notes |-> notes ]

\* ConversationQuestion.objects.filter(session=session): the ids of its rows
QuestionsOf(session) == { q \in 1..Len(questions) : questions[q].session = session }

\* the same without filter(session=session): the last question of any session
NextOrderOfTable(session) ==
    IF questions = << >> THEN 1
    ELSE Max({ questions[q].question_order : q \in 1..Len(questions) }) + 1

\* 1 if last_q is None else last_q.question_order + 1
NextOrder(session) ==
    IF QuestionsOf(session) = {} THEN 1
    ELSE Max({ questions[q].question_order : q \in QuestionsOf(session) }) + 1

\* what can happen to the two INSERTs of a turn
DbOutcomes == {"ok", "question_insert_fails", "response_insert_fails"}

\* a turn or a manual edit ends the record of what generate-paper last stored
Forget(session) == [lastGenerated EXCEPT ![session] = NoContent]

\* the verdicts the classifier can return for a turn, one per LLM outcome
VerdictsFor(key, data) == { c.verdict : c \in { x \in Classified : x.key = key /\ x.data = data } }

\* the ConversationQuestion row the turn view creates for a request
TurnQuestion(session_id, data, next_order) ==
    QuestionRow(session_id, Strip(data.section), SECTION_CATEGORY_MAP[Strip(data.section)],
                Prefix(Strip(data.question_text), 255), Strip(data.question_text), next_order,
                IF Strip(IF data.phase = "" THEN "validation" ELSE data.phase) = "discovery"
                THEN "discovery" ELSE "validation")

\* the ConversationResponse row it creates for the classifier's verdict
TurnResponse(question_id, data, classification) ==
    ResponseRow(question_id, Strip(data.answer_text),
                classification.status, classification.confidence_level,
                classification.extracted_skills, classification.notes)

\* the response to a request whose view let an exception through: a 500 made by
\* the framework for that exception
Unhandled(exception) == Reply(500, [exception |-> exception])

\* the same, the new rows taking the place of the session's last turn
StoreTurnReplacing(session_id, data, classification, db, response) ==
    IF classification = Raised \/ db # "ok"
    THEN /\ reply' = Unhandled("DatabaseError")
         /\ UNCHANGED <<questions, responses, lastGenerated>>
    ELSE /\ Len(questions) < MaxTurns
         /\ lastGenerated' = Forget(session_id)
         /\ IF QuestionsOf(session_id) = {} \/ Len(responses) # Len(questions)
            THEN /\ questions' = Append(questions,
                                        TurnQuestion(session_id, data, NextOrder(session_id)))
                 /\ responses' = Append(responses, response)
            ELSE /\ questions' = [questions EXCEPT ![Max(QuestionsOf(session_id))] =
                                     TurnQuestion(session_id, data, @.question_order)]
                 /\ responses' = [responses EXCEPT ![Max(QuestionsOf(session_id))] =
                                     [response EXCEPT !.question = Max(QuestionsOf(session_id))]]
         /\ reply' = Reply(201, [ question_id |-> response.question,
                                  response_id |-> Len(responses'),
                                  status |-> response.status,
                                  confidence_level |-> response.confidence_level,
                                  extracted_skills |-> response.extracted_skills ])

\* the part of the turn view from the classifier call on: the verdict (or the
\* exception) of classify_recruiter_answer, then the two INSERTs
StoreTurn(session_id, data, classification, db, response) ==
    IF classification = Raised \/ db = "question_insert_fails"
    THEN /\ reply' = IF classification = Raised THEN Unhandled("AttributeError")
                     ELSE Unhandled("DatabaseError")
         /\ UNCHANGED <<questions, responses, lastGenerated>>
    ELSE /\ Len(questions) < MaxTurns
         /\ questions' = Append(questions, TurnQuestion(session_id, data, NextOrder(session_id)))
         /\ lastGenerated' = Forget(session_id)
         /\ IF db = "response_insert_fails"
            THEN /\ responses' = responses
                 /\ reply' = Unhandled("DatabaseError")
            ELSE /\ responses' = Append(responses, response)
                 /\ reply' = Reply(201,
                       [ question_id |-> response.question,
                         response_id |-> Len(responses'),
                         status |-> response.status,
                         confidence_level |-> response.confidence_level,
                         extracted_skills |-> response.extracted_skills ])

\* ConversationTurnView.post, for one request that meets one of the given classifier
\* verdicts; each of the two INSERTs can fail
PostTurnMeeting(user, session_id, data, verdicts) ==
    LET Rejected(code) ==
            /\ reply' = Reply(code, Detail)
            /\ UNCHANGED <<questions, responses, lastGenerated>>
    IN
    /\ IF session_id = NotInt THEN Rejected(400)
       ELSE IF Strip(data.section) = "" THEN Rejected(400)
       ELSE IF session_id \notin SessionIds THEN Rejected(404)
       ELSE IF ~MayWrite(user, sessions[session_id]) THEN Rejected(403)
       ELSE IF Strip(data.section) \notin DOMAIN SECTION_CATEGORY_MAP THEN Rejected(400)
       ELSE
         \E classification \in verdicts, db \in DbOutcomes :
            StoreTurn(session_id, data, classification, db,
                      IF classification = Raised THEN Raised
                      ELSE TurnResponse(Len(questions) + 1, data, classification))
    /\ UNCHANGED <<sessions, papers, nextPaperId, now, apiKey, clientVars, cvVars, userVars, flightVars>>

\* the same, the verdicts being those the classifier returns under the modelled
\* LLM outcomes
PostTurn(user, session_id, data) ==
    PostTurnMeeting(user, session_id, data, VerdictsFor(apiKey, data))

ConversationTurnView ==
    \E user \in Users, session_id \in RequestIds(SessionIds \cup {Len(sessions) + 1}),
       data \in TurnInputs :
        PostTurn(user, session_id, data)

-----------------------------------------------------------------------------
(* Regular expressions, as Python's re matches them: a pattern is a tree, and  *)
(* Ends lists the positions where a match starting at position i can end, in   *)
(* the order in which the backtracking matcher tries them.                      *)

Lit(text)       == [t |-> "lit", text |-> text]          \* literal text
Set(chars)      == [t |-> "set", chars |-> chars, negated |-> FALSE]   \* [abc]
NotSet(chars)   == [t |-> "set", chars |-> chars, negated |-> TRUE]    \* [^abc]
Space           == [t |-> "space"]                       \* \s
Plus(of)        == [t |-> "plus", of |-> of, lazy |-> FALSE]   \* x+  (x one character)
LazyPlus(of)    == [t |-> "plus", of |-> of, lazy |-> TRUE]    \* x+?
Opt(of)         == [t |-> "opt", of |-> of]              \* x?
Alt(parts)      == [t |-> "alt", parts |-> parts]        \* a|b|c
Cat(parts)      == [t |-> "cat", parts |-> parts]        \* abc
AtEnd           == [t |-> "end"]                         \* $
AtStart         == [t |-> "start"]                       \* ^

RECURSIVE Flatten(_)
\* the concatenation of a sequence of sequences, computed by halves
Flatten(ss) ==
    IF Len(ss) = 0 THEN << >>
    ELSE IF Len(ss) = 1 THEN ss[1]
    ELSE LET h == Len(ss) \div 2
         IN  Flatten(SubSeq(ss, 1, h)) \o Flatten(SubSeq(ss, h + 1, Len(ss)))

\* one character against a character class
ClassMatches(re, c, ignorecase) ==
    /\ c # ""
    /\ IF re.t = "space" THEN IsSpace(c)
       ELSE LET in == IF ignorecase THEN Contains(Lower(re.chars), LowerChar(c))
                      ELSE Contains(re.chars, c)
            IN  in # re.negated

\* how many characters from position i on match the class
Run(re, s, i, ignorecase) ==
    LET bad == { j \in i..Len(s) : ~ClassMatches(re, CharAt(s, j), ignorecase) }
    IN  IF bad = {} THEN Len(s) - i + 1
        ELSE (CHOOSE j \in bad : \A k \in bad : j <= k) - i

\* x+ and x+? over a run of n matching characters from position i: the greedy
\* form tries the longest first, the lazy form the shortest
PlusEnds(n, i, lazy) ==
    IF lazy THEN [k \in 1..n |-> i + k] ELSE [k \in 1..n |-> i + n + 1 - k]

\* a literal of n characters at position i, given the text found there
LitEnds(text, here, i, ignorecase) ==
    IF text = "" THEN <<i>>
    ELSE IF here # "" /\ (IF ignorecase THEN Lower(here) = Lower(text) ELSE here = text)
    THEN <<i + Len(text)>> ELSE << >>

RECURSIVE Ends(_, _, _, _)
RECURSIVE CatEnds(_, _, _, _, _)
RECURSIVE EachEnds(_, _, _, _, _, _)

Ends(re, s, i, ignorecase) ==
    CASE re.t = "lit" ->
            LitEnds(re.text,
                    IF i + Len(re.text) - 1 <= Len(s)
                    THEN SubSeq(s, i, i + Len(re.text) - 1) ELSE "",
                    i, ignorecase)
      [] re.t \in {"set", "space"} ->
            IF ClassMatches(re, CharAt(s, i), ignorecase) THEN <<i + 1>> ELSE << >>
      [] re.t = "plus" -> PlusEnds(Run(re.of, s, i, ignorecase), i, re.lazy)
      [] re.t = "opt" -> Ends(re.of, s, i, ignorecase) \o <<i>>
      [] re.t = "alt" ->
            Flatten([k \in 1..Len(re.parts) |-> Ends(re.parts[k], s, i, ignorecase)])
      [] re.t = "cat" -> CatEnds(re.parts, 1, s, i, ignorecase)
      [] re.t = "end" ->
            IF i = Len(s) + 1 \/ (i = Len(s) /\ CharAt(s, i) = "\n") THEN <<i>> ELSE << >>
      [] re.t = "start" -> IF i = 1 THEN <<i>> ELSE << >>

\* parts[k..] matched one after the other from position i
CatEnds(parts, k, s, i, ignorecase) ==
    IF k > Len(parts) THEN <<i>>
    ELSE EachEnds(parts, k, s, Ends(parts[k], s, i, ignorecase), 1, ignorecase)

\* parts[k+1..] matched from each of the positions js[n..], in that order
EachEnds(parts, k, s, js, n, ignorecase) ==
    IF n > Len(js) THEN << >>
    ELSE CatEnds(parts, k + 1, s, js[n], ignorecase)
            \o EachEnds(parts, k, s, js, n + 1, ignorecase)

\* the matches of  before (group) after  that start at position p, best first,
\* each as <<start of the group, position after the group>>
RECURSIVE GroupsFrom(_, _, _, _, _, _)
GroupsFrom(group, after, s, as, n, ignorecase) ==
    IF n > Len(as) THEN << >>
    ELSE LET Ok(g) == Ends(after, s, g, ignorecase) # << >>
             Pair(g) == <<as[n], g>>
             Map(gs) == [m \in 1..Len(gs) |-> Pair(gs[m])]
         IN  Map(SelectSeq(Ends(group, s, as[n], ignorecase), Ok))
                \o GroupsFrom(group, after, s, as, n + 1, ignorecase)

MatchesAt(before, group, after, s, p, ignorecase) ==
    GroupsFrom(group, after, s, Ends(before, s, p, ignorecase), 1, ignorecase)

NoMatch == [found |-> FALSE]

\* the first position of ms that holds a match, and the matcher's first choice there
FirstMatch(ms, s) ==
    LET ps == { p \in DOMAIN ms : ms[p] # << >> }
        At(p) == [ found |-> TRUE, start |-> p,
                   group |-> SubSeq(s, ms[p][1][1], ms[p][1][2] - 1) ]
    IN  IF ps = {} THEN NoMatch
        ELSE At(CHOOSE x \in ps : \A y \in ps : x <= y)

\* re.search(before (group) after, s): the leftmost match, the matcher's first
\* choice at that position; .start is where the whole match begins
Search(before, group, after, s, ignorecase) ==
    FirstMatch([p \in 1..(Len(s) + 1) |->
                    MatchesAt(before, group, after, s, p, ignorecase)], s)

\* the text before a match, or all of it when there is none
BeforeMatch(item, m) == IF m.found THEN SubSeq(item, 1, m.start - 1) ELSE item

\* re.sub(r'[.,;:]+$', '', item): a trailing run of punctuation is removed
StripTrailingPunctuation(item) ==
    BeforeMatch(item, Search(Cat(<< >>), Plus(Set(".,;:")), AtEnd, item, FALSE))

-----------------------------------------------------------------------------
(* ConversationSessionGeneratePaperView: the paper text of a turn log *)

Quote == Set("\"'")
Letter == Set("ABCDEFGHIJKLMNOPQRSTUVWXYZ")

\* a pattern with one group: what precedes the group, the group, what follows
\* it, the re.IGNORECASE flag, and whether the code strips trailing punctuation
\* from the group
Pattern(before, group, after, ignorecase, punctuation) ==
    [ before |-> before, group |-> group, after |-> after,
      ignorecase |-> ignorecase, punctuation |-> punctuation ]

\* r'lists\s+([^.]+?)(?:\.|,|\?|$)', re.IGNORECASE
Pattern1 ==
    Pattern(Cat(<< Lit("lists"), Plus(Space) >>),
            LazyPlus(NotSet(".")),
            Alt(<< Lit("."), Lit(","), Lit("?"), AtEnd >>), TRUE, TRUE)

\* r'worked with\s+([^?]+?)(?:\s+as listed|\?)', re.IGNORECASE
Pattern2 ==
    Pattern(Cat(<< Lit("worked with"), Plus(Space) >>),
            LazyPlus(NotSet("?")),
            Alt(<< Cat(<< Plus(Space), Lit("as listed") >>), Lit("?") >>), TRUE, TRUE)

\* r'^([A-Z][^i]+?)\s+is listed', re.IGNORECASE
Pattern3 ==
    Pattern(AtStart,
            Cat(<< Letter, LazyPlus(NotSet("i")) >>),
            Cat(<< Plus(Space), Lit("is listed") >>), TRUE, FALSE)

\* r'mentions\s+(?:the\s+)?(?:project\s+)?["\']?([^"\'.]+?)["\']?(?:\s+at|\s+\.|$)',
\* re.IGNORECASE
Pattern4 ==
    Pattern(Cat(<< Lit("mentions"), Plus(Space),
                   Opt(Cat(<< Lit("the"), Plus(Space) >>)),
                   Opt(Cat(<< Lit("project"), Plus(Space) >>)),
                   Opt(Quote) >>),
            LazyPlus(NotSet("\"'.")),
            Cat(<< Opt(Quote),
                   Alt(<< Cat(<< Plus(Space), Lit("at") >>),
                          Cat(<< Plus(Space), Lit(".") >>),
                          AtEnd >>) >>), TRUE, TRUE)

\* r'["\']([^"\']+)["\']'
Pattern5 == Pattern(Quote, Plus(NotSet("\"'")), Quote, FALSE, FALSE)

\* the patterns in the order _extract_item_from_question tries them
Patterns == << Pattern1, Pattern2, Pattern3, Pattern4, Pattern5 >>

\* match.group(1).strip(), without its trailing punctuation where the code
\* removes it; "" when the pattern does not match
ItemOfMatch(m, punctuation) ==
    IF ~m.found THEN ""
    ELSE IF punctuation THEN Strip(StripTrailingPunctuation(Strip(m.group)))
    ELSE Strip(m.group)

\* the first of the items that is not empty
RECURSIVE FirstItem(_, _)
FirstItem(items, k) ==
    IF k > Len(items) THEN ""
    ELSE IF items[k] # "" THEN items[k]
    ELSE FirstItem(items, k + 1)

\* _extract_item_from_question (the section argument is not used)
extract_item_from_question(question_text, section) ==
    IF question_text = "" THEN ""
    ELSE FirstItem([ k \in 1..Len(Patterns) |->
                       ItemOfMatch(Search(Patterns[k].before, Patterns[k].group,
                                          Patterns[k].after, question_text,
                                          Patterns[k].ignorecase),
                                   Patterns[k].punctuation) ], 1)

SECTION_LABELS ==
    << <<"core_skills", "Core Skills">>,
       <<"soft_skills", "Soft Skills">>,
       <<"languages", "Languages">>,
       <<"education", "Education">>,
       <<"trainings_certifications", "Trainings & Certifications">>,
       <<"technical_competencies", "Technical Competencies">>,
       <<"project_experience", "Project Experience">>,
       <<"recommendations", "Recommendations">> >>

SectionKeys == { SECTION_LABELS[i][1] : i \in DOMAIN SECTION_LABELS }

\* the indicator list used on extracted_skills and on the topic
paper_question_indicators ==
    << "based on your assessment", "what is your experience", "what can you tell me",
       "do you have anything else", "is there anything else", "anything more",
       "let's talk about", "now let's move", "which", "should we confirm" >>

\* the shorter list used on the text cut out of the question
cleaned_question_indicators ==
    << "based on your assessment", "what is your experience", "what can you tell me",
       "do you have anything else", "is there anything else", "anything more" >>

paper_completion_signals == << "no", "nope", "nothing else", "that's all", "that is all" >>

question_prefixes ==
    << "The competence paper lists ", "Has the candidate worked with ",
       "The competence paper mentions ", "Is it correct that " >>

\* text.split(sep)[0]
BeforeFirst(text, sep) ==
    LET i == FindFrom(text, sep, 1)
    IN  IF i = 0 THEN text ELSE SubSeq(text, 1, i - 1)

\* is_question for an item or a topic
LooksLikeQuestion(text, indicators) ==
    ContainsAny(Lower(text), indicators) \/ EndsWith(text, "?")

\* the last fallback: the question text without its first known prefix
CleanedQuestion(question_text) ==
    LET hits == { i \in DOMAIN question_prefixes : StartsWith(question_text, question_prefixes[i]) }
    IN  IF hits = {} THEN question_text
        ELSE LET i == CHOOSE x \in hits : \A y \in hits : x <= y
                 rest == SubSeq(question_text, Len(question_prefixes[i]) + 1, Len(question_text))
             IN  Strip(BeforeFirst(BeforeFirst(rest, "."), "?"))

\* _extract_item_from_question on the questions of the modelled turns, worked
\* out once
QuestionItems ==
    { [ question_text |-> Strip(data.question_text), section |-> Strip(data.section),
        item |-> extract_item_from_question(Strip(data.question_text), Strip(data.section)) ] :
      data \in TurnInputs \cup { t.data : t \in PaperTurns \cup ExportTurns } }

\* the item of the row of a table that has this question text and section
ItemIn(table, question_text, section) ==
    (CHOOSE e \in table : e.question_text = question_text /\ e.section = section).item

\* _extract_item_from_question(question_text, section) as generate-paper calls it
\* on a stored question
ExtractedItem(question_text, section) == ItemIn(QuestionItems, question_text, section)

\* [item] unless the item is empty
Single(item) == IF item = "" THEN << >> ELSE << item >>

\* the first of two lists unless it is empty
OrElse(items, others) == IF items # << >> THEN items ELSE others

\* items_to_store for one question and its response
ItemsToStore(q, resp) ==
    LET question_text == Strip(q.question_text)
        answer_text   == Strip(resp.answer_text)
        Kept(item_str) == item_str # "" /\ ~LooksLikeQuestion(item_str, paper_question_indicators)
        topic == Strip(q.topic)
        FromCleaned(cleaned) ==
            IF cleaned # "" /\ Len(cleaned) < 100
                  /\ ~LooksLikeQuestion(cleaned, cleaned_question_indicators)
            THEN << cleaned >> ELSE << >>
        FromAnswer(answer_lower) ==
            IF \/ ContainsAny(answer_lower, paper_completion_signals)
               \/ EndsWith(answer_text, "?")
               \/ Contains(answer_lower, "based on your assessment")
            THEN << >> ELSE << answer_text >>
    IN  OrElse(SelectSeq(StripAll(resp.extracted_skills), Kept),
          OrElse(Single(ExtractedItem(question_text, q.section)),
            IF topic # ""
            THEN IF LooksLikeQuestion(topic, paper_question_indicators)
                 THEN << >> ELSE << topic >>
            ELSE IF resp.status \in {"confirmed", "partially_confirmed", "new_skill"}
                      /\ answer_text # ""
            THEN FromAnswer(Lower(answer_text))
            ELSE FromCleaned(CleanedQuestion(question_text))))

RECURSIVE Join(_, _)
\* sep.join(list), computed by halves
Join(list, sep) ==
    IF Len(list) = 0 THEN ""
    ELSE IF Len(list) = 1 THEN list[1]
    ELSE LET h == Len(list) \div 2
         IN  Join(SubSeq(list, 1, h), sep) \o sep \o Join(SubSeq(list, h + 1, Len(list)), sep)

RECURSIVE Repeat(_, _)
\* text * n
Repeat(text, n) == IF n <= 0 THEN "" ELSE text \o Repeat(text, n - 1)

RECURSIVE LowerAll(_)
\* [item.lower() for item in list]
LowerAll(list) ==
    IF list = << >> THEN << >> ELSE <<Lower(Head(list))>> \o LowerAll(Tail(list))

RECURSIVE AddItems(_, _, _)
\* the deduplicating append: an item is added unless its trimmed lower-case form is
\* empty or already among the lower-case forms seen
AddItems(list, existing_items_lower, items_to_store) ==
    IF items_to_store = << >> THEN list
    ELSE LET item == Head(items_to_store)
             item_lower == Strip(Lower(item))
         IN  IF item_lower # "" /\ ~InList(item_lower, existing_items_lower)
             THEN AddItems(Append(list, item), Append(existing_items_lower, item_lower),
                           Tail(items_to_store))
             ELSE AddItems(list, existing_items_lower, Tail(items_to_store))

\* list.extend without the deduplication
ExtendedKeepingAll(list, items_to_store) == list \o items_to_store

\* list.extend with the deduplication above
Extended(list, items_to_store) == AddItems(list, LowerAll(list), items_to_store)

RECURSIVE OrderedBy(_, _)
\* the ids in S as a sequence, by question_order and then by id
OrderedBy(S, qs) ==
    IF S = {} THEN << >>
    ELSE LET first == CHOOSE q \in S :
                         \A r \in S : \/ qs[q].question_order < qs[r].question_order
                                      \/ /\ qs[q].question_order = qs[r].question_order
                                         /\ q <= r
         IN  <<first>> \o OrderedBy(S \ {first}, qs)

\* getattr(q, "response", None): the ids of the response rows of question q
ResponsesOf(q, rs) == { r \in 1..Len(rs) : rs[r].question = q }

\* section_items and additional_notes before the first question is read
NothingCollected ==
    [ section_items |-> [key \in SectionKeys |-> << >>], additional_notes |-> << >> ]

\* what the items of one question add: to its section's list, or to the
\* additional notes
Stored(acc, section, items_to_store) ==
    IF section \in SectionKeys
    THEN [acc EXCEPT !.section_items[section] = Extended(@, items_to_store)]
    ELSE [acc EXCEPT !.additional_notes = Extended(@, items_to_store)]

\* the same without the check of the response's status
CollectedAlsoDenied(acc, q, mine, rs) ==
    IF mine = {} THEN acc
    ELSE IF q.section \notin SectionKeys /\ q.section # "additional_info" THEN acc
    ELSE Stored(acc, q.section, ItemsToStore(q, rs[CHOOSE r \in mine : TRUE]))

\* what one question adds to what was collected: nothing without a response, with
\* a not_confirmed response or in a section the paper does not have
Collected(acc, q, mine, rs) ==
    IF mine = {} THEN acc
    ELSE IF rs[CHOOSE r \in mine : TRUE].status = "not_confirmed" THEN acc
    ELSE IF q.section \notin SectionKeys /\ q.section # "additional_info" THEN acc
    ELSE Stored(acc, q.section, ItemsToStore(q, rs[CHOOSE r \in mine : TRUE]))

RECURSIVE Collect(_, _, _, _)
\* the loop over the questions
Collect(order, qs, rs, acc) ==
    IF order = << >> THEN acc
    ELSE Collect(Tail(order), qs, rs,
                 Collected(acc, qs[Head(order)], ResponsesOf(Head(order), rs), rs))

\* "- " + item for every item
RECURSIVE Bullets(_)
Bullets(items) ==
    IF items = << >> THEN << >> ELSE << "- " \o Head(items) >> \o Bullets(Tail(items))

\* the "Our Recommendation" block
RecommendationLines(section_items, additional_notes) ==
    LET explicit_recs     == section_items["recommendations"]
        all_skill_lines   == section_items["core_skills"] \o section_items["technical_competencies"]
        all_project_lines == section_items["project_experience"]
        Take(list, n) == IF Len(list) <= n THEN list ELSE SubSeq(list, 1, n)
        rec_parts ==
            (IF all_skill_lines # << >>
             THEN << "The candidate has confirmed core and technical skills such as:",
                     "- " \o Join(Take(all_skill_lines, 5), "; ") >> ELSE << >>)
            \o (IF all_project_lines # << >>
                THEN << "They have relevant project experience, including:",
                        "- " \o Join(Take(all_project_lines, 3), "; ") >> ELSE << >>)
            \o (IF additional_notes # << >>
                THEN << "Additional strengths and context from the interview:",
                        "- " \o Join(Take(additional_notes, 5), "; ") >> ELSE << >>)
    IN  IF explicit_recs # << >>
        THEN << "Our Recommendation", "------------------", Join(explicit_recs, " "), "" >>
        ELSE IF rec_parts # << >>
        THEN << "Our Recommendation", "------------------" >> \o rec_parts \o << "" >>
        ELSE << >>

\* one labelled section: header, underline, bullets, blank line
SectionLines(label, items) ==
    IF items = << >> THEN << >>
    ELSE << label, Repeat("-", Len(label)) >> \o Bullets(items) \o << "" >>

\* text_content for the collected items
PaperText(section_items, additional_notes) ==
    LET lines ==
            RecommendationLines(section_items, additional_notes)
            \o Flatten([ i \in 1..Len(SECTION_LABELS) |->
                          IF SECTION_LABELS[i][1] = "recommendations" THEN << >>
                          ELSE SectionLines(SECTION_LABELS[i][2],
                                            section_items[SECTION_LABELS[i][1]]) ])
            \o (IF additional_notes # << >>
                THEN << "Additional Information from Interview",
                        "------------------------------------" >>
                     \o Bullets(additional_notes) \o << "" >>
                ELSE << >>)
    IN  Strip(Join(lines, "\n"))


\* ConversationCompetencePaper as stored
PaperRow(id, conversation_session, content, created_at) ==
    [ id |-> id, conversation_session |-> conversation_session,
      content |-> content, created_at |-> created_at ]

\* the row with primary key id (the caller checks that it exists)
PaperById(id) == CHOOSE p \in papers : p.id = id
PaperIds == { p.id : p \in papers }

\* text_content for what the loop collected
PaperOf(collected) == PaperText(collected.section_items, collected.additional_notes)

\* the questions of a session in the order generate-paper reads them
SessionOrder(session, qs) == OrderedBy({ q \in 1..Len(qs) : qs[q].session = session }, qs)

\* text under the content the session's paper already has
Appended(text, existing) ==
    IF existing = Null \/ text = "" THEN text
    ELSE PaperById(existing).content \o "\n" \o text

\* the same text put under the content the session's paper already has
TextContentAppended(session, qs, rs) ==
    Appended(PaperOf(Collect(SessionOrder(session, qs), qs, rs, NothingCollected)),
             sessions[session].conversation_competence_paper)

\* the text generate-paper builds for a session from the stored turns
TextContent(session, qs, rs) ==
    PaperOf(Collect(SessionOrder(session, qs), qs, rs, NothingCollected))
\* ConversationCompetencePaperSerializer(conversation_paper).data
PaperData(paper) ==
    [id |-> paper.id, session_id |-> paper.conversation_session, content |-> paper.content]

\* the same without the check for an empty text
StorePaperAlways(session_id, text_content) ==
    LET existing == sessions[session_id].conversation_competence_paper
        conversation_paper ==
            IF existing = Null
            THEN PaperRow(nextPaperId, session_id, text_content, now')
            ELSE [PaperById(existing) EXCEPT !.content = text_content]
    IN  IF FALSE
        THEN /\ reply' = Reply(400, Detail)
             /\ UNCHANGED <<sessions, papers, nextPaperId, now, lastGenerated>>
        ELSE /\ now < MaxClock
             /\ now' = now + 1
             /\ IF existing = Null
                THEN /\ nextPaperId <= MaxPapers
                     /\ nextPaperId' = nextPaperId + 1
                     /\ papers' = papers \cup {conversation_paper}
                ELSE /\ nextPaperId' = nextPaperId
                     /\ papers' = (papers \ {PaperById(existing)})
                                     \cup {conversation_paper}
             /\ sessions' = [sessions EXCEPT
                    ![session_id].status = "completed",
                    ![session_id].completed_at = now',
                    ![session_id].conversation_competence_paper = conversation_paper.id]
             /\ lastGenerated' = [lastGenerated EXCEPT
                                     ![session_id] = Generated(text_content,
                                                  lastGenerated[session_id])]
             /\ reply' = Reply(200, PaperData(conversation_paper))

\* the same creating a new row for every generated text
StorePaperAnew(session_id, text_content) ==
    LET existing == Null
        conversation_paper ==
            IF existing = Null
            THEN PaperRow(nextPaperId, session_id, text_content, now')
            ELSE [PaperById(existing) EXCEPT !.content = text_content]
    IN  IF text_content = ""
        THEN /\ reply' = Reply(400, Detail)
             /\ UNCHANGED <<sessions, papers, nextPaperId, now, lastGenerated>>
        ELSE /\ now < MaxClock
             /\ now' = now + 1
             /\ IF existing = Null
                THEN /\ nextPaperId <= MaxPapers
                     /\ nextPaperId' = nextPaperId + 1
                     /\ papers' = papers \cup {conversation_paper}
                ELSE /\ nextPaperId' = nextPaperId
                     /\ papers' = (papers \ {PaperById(existing)})
                                     \cup {conversation_paper}
             /\ sessions' = [sessions EXCEPT
                    ![session_id].status = "completed",
                    ![session_id].completed_at = now',
                    ![session_id].conversation_competence_paper = conversation_paper.id]
             /\ lastGenerated' = [lastGenerated EXCEPT
                                     ![session_id] = Generated(text_content,
                                                  lastGenerated[session_id])]
             /\ reply' = Reply(200, PaperData(conversation_paper))

\* the part of generate-paper that follows the building of text_content: 400 for
\* an empty text, else the paper row is created or overwritten and the session
\* completed
StorePaper(session_id, text_content) ==
    LET existing == sessions[session_id].conversation_competence_paper
        conversation_paper ==
            IF existing = Null
            THEN PaperRow(nextPaperId, session_id, text_content, now')
            ELSE [PaperById(existing) EXCEPT !.content = text_content]
    IN  IF text_content = ""
        THEN /\ reply' = Reply(400, Detail)
             /\ UNCHANGED <<sessions, papers, nextPaperId, now, lastGenerated>>
        ELSE /\ now < MaxClock
             /\ now' = now + 1
             /\ IF existing = Null
                THEN /\ nextPaperId <= MaxPapers
                     /\ nextPaperId' = nextPaperId + 1
                     /\ papers' = papers \cup {conversation_paper}
                ELSE /\ nextPaperId' = nextPaperId
                     /\ papers' = (papers \ {PaperById(existing)})
                                     \cup {conversation_paper}
             /\ sessions' = [sessions EXCEPT
                    ![session_id].status = "completed",
                    ![session_id].completed_at = now',
                    ![session_id].conversation_competence_paper = conversation_paper.id]
             /\ lastGenerated' = [lastGenerated EXCEPT
                                     ![session_id] = Generated(text_content,
                                                  lastGenerated[session_id])]
             /\ reply' = Reply(200, PaperData(conversation_paper))

\* ConversationSessionGeneratePaperView.post, for one request
GeneratePaper(user, session_id) ==
    LET Rejected(code) ==
            /\ reply' = Reply(code, Detail)
            /\ UNCHANGED <<sessions, papers, nextPaperId, now, lastGenerated>>
    IN
    /\ IF session_id \notin SessionIds THEN Rejected(404)
       ELSE IF ~MayWrite(user, sessions[session_id]) THEN Rejected(403)
       ELSE StorePaper(session_id, TextContent(session_id, questions, responses))
    /\ UNCHANGED <<questions, responses, apiKey, clientVars, cvVars, userVars, flightVars>>

ConversationSessionGeneratePaperView ==
    \E user \in Users, session_id \in SessionIds \cup {Len(sessions) + 1} :
        GeneratePaper(user, session_id)

\* the content a client sends when it edits a paper by hand
EditContents == { "  ", " Core Skills\n-----------\n- Kotlin " }

\* can_user_access_conversation_paper / can_user_delete_conversation_paper
can_user_access_conversation_paper(user, paper) ==
    is_staff(user) \/ cv_user[sessions[paper.conversation_session].cv] = user

\* the same storing the content as it was sent
PatchPaperAsSent(user, paper_id, data) ==
    LET Rejected(code) ==
            /\ reply' = Reply(code, Detail)
            /\ UNCHANGED <<papers, lastGenerated>>
    IN
    /\ IF paper_id \notin PaperIds THEN Rejected(404)
       ELSE IF ~can_user_access_conversation_paper(user, PaperById(paper_id))
       THEN Rejected(403)
       ELSE IF data = "" THEN Rejected(400)
       ELSE LET conversation_paper == [PaperById(paper_id) EXCEPT !.content = data]
            IN  /\ papers' = (papers \ {PaperById(paper_id)}) \cup {conversation_paper}
                /\ lastGenerated' = Forget(conversation_paper.conversation_session)
                /\ reply' = Reply(200, PaperData(conversation_paper))
    /\ UNCHANGED <<sessions, questions, responses, nextPaperId, now, apiKey, clientVars, cvVars, userVars, flightVars>>

\* ConversationCompetencePaperUpdateView.patch, for one request
PatchPaper(user, paper_id, data) ==
    LET content == Strip(data)
        Rejected(code) ==
            /\ reply' = Reply(code, Detail)
            /\ UNCHANGED <<papers, lastGenerated>>
    IN
    /\ IF paper_id \notin PaperIds THEN Rejected(404)
       ELSE IF ~can_user_access_conversation_paper(user, PaperById(paper_id))
       THEN Rejected(403)
       ELSE IF content = "" THEN Rejected(400)
       ELSE LET conversation_paper == [PaperById(paper_id) EXCEPT !.content = content]
            IN  /\ papers' = (papers \ {PaperById(paper_id)}) \cup {conversation_paper}
                /\ lastGenerated' = Forget(conversation_paper.conversation_session)
                /\ reply' = Reply(200, PaperData(conversation_paper))
    /\ UNCHANGED <<sessions, questions, responses, nextPaperId, now, apiKey, clientVars, cvVars, userVars, flightVars>>

ConversationCompetencePaperUpdateView ==
    \E user \in Users, paper_id \in PaperIds \cup {nextPaperId}, data \in EditContents :
        PatchPaper(user, paper_id, data)

\* ConversationCompetencePaperDeleteView.delete, for one request; the sessions that
\* point to the deleted row get NULL (on_delete=SET_NULL)
DeletePaper(user, paper_id) ==
    /\ IF paper_id \notin PaperIds
       THEN /\ reply' = Reply(404, Detail)
            /\ UNCHANGED <<papers, sessions>>
       ELSE IF ~can_user_access_conversation_paper(user, PaperById(paper_id))
       THEN /\ reply' = Reply(403, Detail)
            /\ UNCHANGED <<papers, sessions>>
       ELSE /\ papers' = papers \ {PaperById(paper_id)}
            /\ sessions' =
                  [ i \in SessionIds |->
                      IF sessions[i].conversation_competence_paper = paper_id
                      THEN [sessions[i] EXCEPT !.conversation_competence_paper = Null]
                      ELSE sessions[i] ]
            /\ reply' = Reply(200, Detail)
    /\ UNCHANGED <<questions, responses, nextPaperId, now, lastGenerated,
                   apiKey, clientVars, cvVars, userVars, flightVars>>

ConversationCompetencePaperDeleteView ==
    \E user \in Users, paper_id \in PaperIds \cup {nextPaperId} :
        DeletePaper(user, paper_id)

Next ==
    \/ ConversationSessionStartView
    \/ ConversationTurnView
    \/ ConversationSessionGeneratePaperView
    \/ ConversationCompetencePaperUpdateView
    \/ ConversationCompetencePaperDeleteView

Spec == Init /\ [][Next]_vars

-----------------------------------------------------------------------------
(* generate-paper on stored turn logs *)

MaxLog == 3

\* the logs: up to MaxLog turns of one session
PaperLogs == UNION { [1..n -> PaperTurns] : n \in 0..MaxLog }

\* the rows the turn view stored for the turns of a log of session 1
LoggedQuestions(log) ==
    [ i \in 1..Len(log) |-> TurnQuestion(1, log[i].data, i) ]

LoggedResponses(log) ==
    [ i \in 1..Len(log) |->
        TurnResponse(i, log[i].data,
                     classify_recruiter_answer(Strip(log[i].data.question_text),
                                               Strip(log[i].data.answer_text),
                                               Strip(log[i].data.section), log[i].llm, TRUE)) ]

\* one session in progress whose turns have been stored, no paper yet
PaperInit ==
    /\ apiKey = TRUE
    /\ IdleClient
    /\ CvIdle
    /\ NoAccounts
    /\ NoneInFlight
    /\ sessions = << SessionRow(1, 1, "in_progress", 1) >>
    /\ \E log \in PaperLogs :
          /\ questions = LoggedQuestions(log)
          /\ responses = LoggedResponses(log)
    /\ papers = {}
    /\ nextPaperId = 1
    /\ now = 1
    /\ reply = NoReply
    /\ lastGenerated = << NoContent >>

PaperNext ==
    \/ ConversationSessionGeneratePaperView
    \/ ConversationCompetencePaperUpdateView
    \/ ConversationCompetencePaperDeleteView

SpecPaper == PaperInit /\ [][PaperNext]_vars

-----------------------------------------------------------------------------
(* the answer classifier, as the turn view calls it *)

\* the turns sent to the classifier: four sections, a completion phrase with and
\* without capitals, a descriptive answer and an answer in another script
ClassifyInputs ==
    { TurnData(section, "validation", JavaQuestion, answer_text) :
        section \in {"core_skills", "soft_skills", "additional_info", "recommendations"},
        answer_text \in {"no", " Nope", "Strong hire, very reliable",
                          NonAscii \o NonAscii \o " " \o NonAscii \o NonAscii \o NonAscii} }

\* what the classifier's LLM call can come to; the notes tell the confidence the
\* LLM gave
ClassifyOutcomes ==
    { ClsFailure, ClsNotObject }
    \cup { ClsObject(status, confidence_level, extracted_skills,
                     "confidence: " \o confidence_level) :
             status \in {"confirmed", "not_confirmed", "maybe"},
             confidence_level \in {"low", " High", ""},
             extracted_skills \in { << >>, << "Nope" >>, << "Java", " no " >> } }

\* the verdict of each of these turns under every LLM outcome it can meet, with
\* and without an API key
ClassifierTable ==
    UNION { { [ key |-> key, data |-> data,
                verdict |-> classify_recruiter_answer(Strip(data.question_text),
                                Strip(data.answer_text), Strip(data.section), llm, key) ] :
              llm \in (IF ClassifierCallsLlm(Strip(data.answer_text), key)
                       THEN ClassifyOutcomes ELSE {NoCls}) } :
            key \in BOOLEAN, data \in ClassifyInputs }

\* the verdicts classify_recruiter_answer can return for a request
ClassifierVerdicts(key, data) ==
    { c.verdict : c \in { x \in ClassifierTable : x.key = key /\ x.data = data } }

\* the turns the session can hold already
EarlierTurns == { t \in PaperTurns : t.data.section = "additional_info" }

\* one session in progress that has room for one more turn
ClassifyInit ==
    /\ apiKey \in BOOLEAN
    /\ IdleClient
    /\ CvIdle
    /\ NoAccounts
    /\ NoneInFlight
    /\ sessions = << SessionRow(1, 1, "in_progress", 1) >>
    /\ \E log \in [1..(MaxTurns - 1) -> EarlierTurns] :
          /\ questions = LoggedQuestions(log)
          /\ responses = LoggedResponses(log)
    /\ papers = {}
    /\ nextPaperId = 1
    /\ now = 1
    /\ reply = NoReply
    /\ lastGenerated = << NoContent >>

\* ConversationTurnView.post on these requests
ClassifierTurnView ==
    \E user \in Users, session_id \in RequestIds(SessionIds \cup {Len(sessions) + 1}),
       data \in ClassifyInputs :
        PostTurnMeeting(user, session_id, data, ClassifierVerdicts(apiKey, data))

SpecClassify == ClassifyInit /\ [][ClassifierTurnView]_vars

-----------------------------------------------------------------------------
(* CV formatting: generate_structured_cv *)

\* JSON values as json.loads returns them; what str() makes of a value that is no
\* string is carried along as repr
JNull == [type |-> "null"]
JStr(s) == [type |-> "str", value |-> s]
JNum(n, repr) == [type |-> "num", value |-> n, repr |-> repr]
JList(items, repr) == [type |-> "list", items |-> items, repr |-> repr]
JDict(repr) == [type |-> "dict", repr |-> repr]     \* an object with members

\* bool(v)
Truthy(v) ==
    CASE v.type = "null" -> FALSE
      [] v.type = "str"  -> v.value # ""
      [] v.type = "num"  -> v.value # 0
      [] v.type = "list" -> v.items # << >>
      [] OTHER           -> TRUE

\* str(v)
PyStr(v) == IF v.type = "str" THEN v.value ELSE v.repr

\* data.get(key)
Get(data, key) == IF key \in DOMAIN data THEN data[key] ELSE JNull

\* data.get(key) or []; [] as well if that is no list
ListOf(data, key) ==
    IF Truthy(Get(data, key)) /\ Get(data, key).type = "list"
    THEN JList(Get(data, key).items, "")
    ELSE JList(<< >>, "")

\* the dict generate_structured_cv returns
Structure(profile, languages, skills, work_experience, education, projects, courses, certifications) ==
    [ kind |-> "dict",
      profile |-> JStr(profile),
      languages |-> languages,
      skills |-> JList(skills, ""),
      skills_grouped |-> [type |-> "dict", repr |-> "{}"],
      work_experience |-> work_experience,
      education |-> education,
      projects |-> projects,
      courses |-> courses,
      certifications |-> certifications ]

NoItemsList == JList(<< >>, "")

\* the "empty, but correctly shaped, structure"
EmptyStructure ==
    Structure("", NoItemsList, << >>, NoItemsList, NoItemsList, NoItemsList, NoItemsList,
              NoItemsList)

RECURSIVE SplitOn(_, _)
\* s.split(sep)
SplitOn(s, sep) ==
    IF FindFrom(s, sep, 1) = 0 THEN << s >>
    ELSE << SubSeq(s, 1, FindFrom(s, sep, 1) - 1) >>
         \o SplitOn(SubSeq(s, FindFrom(s, sep, 1) + Len(sep), Len(s)), sep)

\* a list without its last element if that is the empty string
WithoutEmptyLast(parts) ==
    IF parts[Len(parts)] = "" THEN SubSeq(parts, 1, Len(parts) - 1) ELSE parts

\* s.splitlines(), for texts whose only line boundary is \n
SplitLines(s) == IF s = "" THEN << >> ELSE WithoutEmptyLast(SplitOn(s, "\n"))

\* list[:n]
Take(list, n) == IF Len(list) <= n THEN list ELSE SubSeq(list, 1, n)

\* l.count(",")
Commas(l) == Cardinality({ i \in 1..Len(l) : SubSeq(l, i, i) = "," })

\* the position of the first line that contains "skills", 0 if none
SkillsHeading(lines) ==
    IF \E i \in DOMAIN lines : Contains(Lower(lines[i]), "skills")
    THEN CHOOSE i \in DOMAIN lines :
            /\ Contains(Lower(lines[i]), "skills")
            /\ \A j \in 1..(i - 1) : ~Contains(Lower(lines[j]), "skills")
    ELSE 0

RECURSIVE UntilBlank(_)
\* the lines up to the first blank one
UntilBlank(lines) ==
    IF lines = << >> \/ Strip(Head(lines)) = "" THEN << >>
    ELSE << Head(lines) >> \o UntilBlank(Tail(lines))

\* skill_lines: the lines under the heading, or without a heading the lines that
\* have three commas or more
SkillLines(lines, idx_skills) ==
    IF idx_skills # 0 THEN UntilBlank(SubSeq(lines, idx_skills + 1, Len(lines)))
    ELSE LET ManyCommas(l) == Commas(l) >= 3 IN SelectSeq(lines, ManyCommas)

RECURSIVE RawTokens(_)
\* raw_tokens: every skill line split at , ; / and |
RawTokens(skill_lines) ==
    IF skill_lines = << >> THEN << >>
    ELSE SplitOn(Replace(Replace(Replace(Head(skill_lines), ";", ","), "/", ","), "|", ","),
                 ",")
         \o RawTokens(Tail(skill_lines))

RECURSIVE SeenOnce(_, _, _)
\* the tokens of two characters or more, each kept the first time its lower-case
\* form is seen
SeenOnce(raw_tokens, seen, skills) ==
    IF raw_tokens = << >> THEN skills
    ELSE IF Len(Strip(Head(raw_tokens))) < 2 \/ Lower(Strip(Head(raw_tokens))) \in seen
    THEN SeenOnce(Tail(raw_tokens), seen, skills)
    ELSE SeenOnce(Tail(raw_tokens), seen \cup {Lower(Strip(Head(raw_tokens)))},
                  Append(skills, JStr(Strip(Head(raw_tokens)))))

\* the rest of _simple_structured_cv_from_text, given the stripped lines
SimpleFromLines(lines) ==
    LET NotEmpty(l) == l # ""
    IN  Structure(Strip(Prefix(Join(Take(SelectSeq(lines, NotEmpty), 3), " "), 600)),
                  NoItemsList,
                  SeenOnce(RawTokens(SkillLines(lines, SkillsHeading(lines))), {}, << >>),
                  NoItemsList, NoItemsList, NoItemsList, NoItemsList, NoItemsList)

\* [line.strip() for line in list]
RECURSIVE StrippedLines(_)
StrippedLines(list) ==
    IF list = << >> THEN << >> ELSE << Strip(Head(list)) >> \o StrippedLines(Tail(list))

\* _simple_structured_cv_from_text
simple_structured_cv_from_text(cv_text) == SimpleFromLines(StrippedLines(SplitLines(cv_text)))

\* What the call of the local LLM can come to.  kind: "unavailable" (_ollama raised),
\* "no_braces" (the output has no "{" or no "}"), "bad_json" (json.loads raised on
\* the text between the first "{" and the last "}") or "object" with the parsed
\* members in data.
CvUnavailable == [kind |-> "unavailable"]
CvUnparsed(kind) == [kind |-> kind]
CvObject(data) == [kind |-> "object", data |-> data]

\* _extract_first_json_object: the parsed object, or {} when extraction fails
extract_first_json_object(llm) ==
    IF llm.kind = "object" THEN llm.data ELSE << >>

RECURSIVE NormalizedSkills(_)
\* normalized_skills: the strings among the skills, stripped, unless empty
NormalizedSkills(items) ==
    IF items = << >> THEN << >>
    ELSE (IF Head(items).type = "str" /\ Strip(Head(items).value) # ""
          THEN << JStr(Strip(Head(items).value)) >> ELSE << >>)
         \o NormalizedSkills(Tail(items))

\* the normalisation without the isinstance checks on the lists
NormalizedUnchecked(cv_text, data, profile, normalized_skills) ==
    IF profile = "" /\ normalized_skills = << >>
    THEN simple_structured_cv_from_text(cv_text)
    ELSE Structure(profile, Get(data, "languages"), normalized_skills,
                   Get(data, "work_experience"), Get(data, "education"),
                   Get(data, "projects"), Get(data, "courses"),
                   Get(data, "certifications"))

\* the part of generate_structured_cv that follows the extraction: the members
\* normalised, or the heuristic when profile and skills are both empty
Normalized(cv_text, data, profile, normalized_skills) ==
    IF profile = "" /\ normalized_skills = << >>
    THEN simple_structured_cv_from_text(cv_text)
    ELSE Structure(profile, ListOf(data, "languages"), normalized_skills,
                   ListOf(data, "work_experience"), ListOf(data, "education"),
                   ListOf(data, "projects"), ListOf(data, "courses"),
                   ListOf(data, "certifications"))

\* str(data.get("profile") or "").strip()
ProfileOf(data) ==
    IF Truthy(Get(data, "profile")) THEN Strip(PyStr(Get(data, "profile"))) ELSE ""

\* generate_structured_cv, given the parsed object
FromData(cv_text, data) ==
    Normalized(cv_text, data, ProfileOf(data), NormalizedSkills(ListOf(data, "skills").items))

generate_structured_cv(cv_text, llm) ==
    IF Strip(cv_text) = "" THEN EmptyStructure
    ELSE IF llm.kind = "unavailable" THEN simple_structured_cv_from_text(cv_text)
    ELSE FromData(cv_text, extract_first_json_object(llm))

\* the CV texts a call is made with
CvTexts ==
    { "",
      " \n ",
      "Ann Lee\nEngineer",
      "Jane Doe\nSkills\nJava, java; Go\n\nKotlin",
      "John\nPython, Go, python, C",
      "Technical skills: none listed\nC|Rust / rust\n" }

\* the outcomes of the call of the local LLM
CvOutcomes ==
    { CvUnavailable, CvUnparsed("no_braces"), CvUnparsed("bad_json"),
      CvObject(<< >>),
      CvObject([profile |-> JNull, skills |-> JList(<< >>, "[]")]),
      CvObject([profile |-> JStr(" Developer "),
                skills |-> JList(<< JStr("Java"), JStr(" java"), JNum(3, "3"), JStr("  ") >>, "")]),
      CvObject([profile |-> JNum(7, "7"), skills |-> JStr("Java")]),
      CvObject([skills |-> JList(<< JStr("Rust"), JStr("Go") >>, "")]),
      CvObject([profile |-> JStr("Developer"),
                skills |-> JList(<< JStr("Go") >>, ""),
                languages |-> JDict("{'English': 'C1'}"),
                work_experience |-> JList(<< JDict("{'title': 'Engineer'}") >>, ""),
                education |-> JStr("BSc"),
                projects |-> JNum(0, "0")]),
      CvObject([profile |-> JList(<< JStr("Developer") >>, "['Developer']"),
                skills |-> JList(<< JNum(1, "1") >>, "")]) }

\* a CV has been uploaded and its text extracted; nothing else goes on
CvInit ==
    /\ apiKey = FALSE
    /\ IdleClient
    /\ EmptyStore
    /\ cvText \in CvTexts
    /\ cvLlm \in CvOutcomes
    /\ cvResult = NoCall
    /\ recText = ""
    /\ recResult = NoCall
    /\ NoAccounts
    /\ NoneInFlight

\* one call of generate_structured_cv
FormatCv ==
    /\ cvResult = NoCall
    /\ cvResult' = generate_structured_cv(cvText, cvLlm)
    /\ UNCHANGED <<cvText, cvLlm, recText, recResult, engineVars, storeVars, userVars, flightVars>>

SpecCv == CvInit /\ [][FormatCv]_vars

-----------------------------------------------------------------------------
(* PDF export of a conversation competence paper *)

\* the headers ConversationCompetencePaperPDFView.get looks for, each with the
\* field its content goes to
ExportHeaders ==
    << <<"Our Recommendation", "recommendation">>,
       <<"Core Skills", "core_skills">>,
       <<"Soft Skills", "soft_skills">>,
       <<"Languages", "languages">>,
       <<"Education", "education">>,
       <<"Trainings & Certifications", "trainings_certifications">>,
       <<"Technical Competencies", "technical_competencies">>,
       <<"Project Experience", "project_experience">>,
       <<"Additional Information from Interview", "additional_notes">> >>

IsExportHeader(line_stripped) ==
    \E h \in DOMAIN ExportHeaders : ExportHeaders[h][1] = line_stripped

FieldOf(section_name) ==
    ExportHeaders[CHOOSE h \in DOMAIN ExportHeaders : ExportHeaders[h][1] = section_name][2]

\* section_items, additional_notes and recommendation before the parse
NothingParsed ==
    [ recommendation |-> "", core_skills |-> << >>, soft_skills |-> << >>,
      languages |-> << >>, education |-> << >>, trainings_certifications |-> << >>,
      technical_competencies |-> << >>, project_experience |-> << >>,
      additional_notes |-> << >> ]

\* the item of one line of a section: a line that starts with "-" loses every "-"
BulletItem(item) ==
    IF StartsWith(item, "-") THEN << Strip(Replace(item, "-", "")) >>
    ELSE IF item # "" THEN << item >>
    ELSE << >>

RECURSIVE BulletItems(_)
BulletItems(content_lines) ==
    IF content_lines = << >> THEN << >>
    ELSE BulletItem(Strip(Head(content_lines))) \o BulletItems(Tail(content_lines))

\* parse_section_content
parse_section_content(content_text, section_name) ==
    IF section_name = "Our Recommendation" THEN content_text
    ELSE BulletItems(SplitOn(content_text, "\n"))

\* "Save previous section"
Saved(parsed, current_section, current_content) ==
    IF current_section # "" /\ current_content # << >>
    THEN [parsed EXCEPT ![FieldOf(current_section)] =
            parse_section_content(Strip(Join(current_content, "\n")), current_section)]
    ELSE parsed

\* a line of dashes
IsUnderline(line_stripped) ==
    Strip(Replace(line_stripped, "-", "")) = "" /\ Len(line_stripped) > 0

RECURSIVE ParsedLines(_, _, _, _)
\* the loop over the lines of the text, and the save of the last section
ParsedLines(lines, parsed, current_section, current_content) ==
    IF lines = << >> THEN Saved(parsed, current_section, current_content)
    ELSE IF IsExportHeader(Strip(Head(lines)))
    THEN ParsedLines(Tail(lines), Saved(parsed, current_section, current_content),
                     Strip(Head(lines)), << >>)
    ELSE IF current_section # "" /\ ~IsUnderline(Strip(Head(lines)))
    THEN ParsedLines(Tail(lines), parsed, current_section,
                     Append(current_content, Head(lines)))
    ELSE ParsedLines(Tail(lines), parsed, current_section, current_content)

\* what the view parses out of the stored text
ParsedPaper(text_content) == ParsedLines(SplitOn(text_content, "\n"), NothingParsed, "", << >>)

\* _format_project_experience: the items that are not empty, each as it is
format_project_experience(project_items) ==
    LET NotEmpty(item) == item # "" IN SelectSeq(project_items, NotEmpty)

\* the parsed sections, and the project line of the structured data built from them
Projected(parsed) ==
    [ parsed |-> parsed,
      project_experience_line |-> Join(format_project_experience(parsed.project_experience), "|") ]

\* ConversationCompetencePaperPDFView.get, for one request; the reply holds the
\* parsed sections the view builds the PDF from
ExportPdf(user, paper_id) ==
    /\ reply' = IF paper_id \notin PaperIds THEN Reply(404, Detail)
                ELSE IF ~can_user_access_conversation_paper(user, PaperById(paper_id))
                THEN Reply(403, Detail)
                ELSE Reply(200, Projected(ParsedPaper(PaperById(paper_id).content)))
    /\ UNCHANGED <<sessions, questions, responses, papers, nextPaperId, now, lastGenerated,
                   apiKey, clientVars, cvVars, userVars, flightVars>>

ConversationCompetencePaperPDFView ==
    \E user \in Users, paper_id \in PaperIds \cup {nextPaperId} : ExportPdf(user, paper_id)

MaxExportLog == 2

\* the logs: up to MaxExportLog turns of one session
ExportLogs == UNION { [1..n -> ExportTurns] : n \in 0..MaxExportLog }

\* one session in progress whose turns have been stored, no paper yet
ExportInit ==
    /\ apiKey = TRUE
    /\ IdleClient
    /\ CvIdle
    /\ NoAccounts
    /\ NoneInFlight
    /\ sessions = << SessionRow(1, 1, "in_progress", 1) >>
    /\ \E log \in ExportLogs :
          /\ questions = LoggedQuestions(log)
          /\ responses = LoggedResponses(log)
    /\ papers = {}
    /\ nextPaperId = 1
    /\ now = 1
    /\ reply = NoReply
    /\ lastGenerated = << NoContent >>

ExportNext ==
    \/ ConversationSessionGeneratePaperView
    \/ ConversationCompetencePaperUpdateView
    \/ ConversationCompetencePaperPDFView

SpecExport == ExportInit /\ [][ExportNext]_vars

-----------------------------------------------------------------------------
(* Projection to the template fields: the limit on the recommendation *)

\* the starts of the matches of (?<=[.!?])\s+ : a white-space character that comes
\* right after ".", "!" or "?"
SeparatorStarts(text) ==
    { i \in 2..Len(text) :
        /\ IsSpace(SubSeq(text, i, i))
        /\ SubSeq(text, i - 1, i - 1) \in {".", "!", "?"} }

\* the last character of the white space that starts at i
SeparatorEnd(text, i) ==
    CHOOSE j \in i..Len(text) :
        /\ \A k \in i..j : IsSpace(SubSeq(text, k, k))
        /\ j = Len(text) \/ ~IsSpace(SubSeq(text, j + 1, j + 1))

RECURSIVE SplitAt(_, _, _)
\* the pieces of the text between the separators that start in `starts`, the
\* first piece starting at `from`
SplitAt(text, from, starts) ==
    IF starts = {} THEN << SubSeq(text, from, Len(text)) >>
    ELSE LET i == CHOOSE s \in starts : \A t \in starts : s <= t
         IN  << SubSeq(text, from, i - 1) >>
             \o SplitAt(text, SeparatorEnd(text, i) + 1, starts \ {i})

\* re.split(r'(?<=[.!?])\s+', text)
Sentences(text) == SplitAt(text, 1, SeparatorStarts(text))

RECURSIVE Accumulated(_, _, _)
\* the loop that adds the sentences, each followed by a space, while they fit
Accumulated(sentences, recommendation, limit) ==
    IF sentences = << >> THEN recommendation
    ELSE IF Len(recommendation) + Len(Head(sentences)) <= limit
    THEN Accumulated(Tail(sentences), recommendation \o Head(sentences) \o " ", limit)
    ELSE recommendation

\* "If still too long, hard cut"
HardCut(recommendation, limit) ==
    IF Len(recommendation) > limit
    THEN SubSeq(recommendation, 1, limit - 3) \o "..."
    ELSE recommendation

\* the recommendation cut down to the limit
Limited(recommendation, limit) ==
    IF Len(recommendation) > limit
    THEN HardCut(Strip(Accumulated(Sentences(recommendation), "", limit)), limit)
    ELSE recommendation

\* the limit of _build_structured_data_from_conversation
ConversationLimit == 550

\* the limit of render_structured_cv_to_pdf
ProfileLimit == 500

A10 == "aaaaaaaaaa"
A50 == A10 \o A10 \o A10 \o A10 \o A10
A250 == A50 \o A50 \o A50 \o A50 \o A50

\* sentences of 5, 51, 251, 301 and 561 characters and 550 characters without
\* any punctuation
Pieces ==
    { "Good.", A50 \o ".", A250 \o "!", A250 \o A50 \o "?",
      A250 \o A250 \o A50 \o A10 \o ".", A250 \o A250 \o A50 }

\* the recommendation texts: one piece, or three with white space between them
RecTexts ==
    Pieces \cup { p1 \o sep \o p2 \o " " \o p3 :
                    p1 \in Pieces, p2 \in Pieces, p3 \in Pieces, sep \in {" ", "  \n"} }

\* a recommendation is about to be projected; nothing else goes on
ProjectInit ==
    /\ apiKey = FALSE
    /\ IdleClient
    /\ EmptyStore
    /\ cvText = ""
    /\ cvLlm = [kind |-> "not_called"]
    /\ cvResult = NoCall
    /\ recText \in RecTexts
    /\ recResult = NoCall
    /\ NoAccounts
    /\ NoneInFlight

\* _build_structured_data_from_conversation, for the recommendation of the data it
\* returns
ProjectConversation ==
    /\ recResult = NoCall
    /\ recResult' = [by |-> "conversation", recommendation |-> Limited(recText, ConversationLimit)]
    /\ UNCHANGED <<recText, cvText, cvLlm, cvResult, engineVars, storeVars, userVars, flightVars>>

\* render_structured_cv_to_pdf, for the recommendation it takes from the profile
ProjectProfile ==
    /\ recResult = NoCall
    /\ recResult' = [by |-> "profile", recommendation |-> Limited(recText, ProfileLimit)]
    /\ UNCHANGED <<recText, cvText, cvLlm, cvResult, engineVars, storeVars, userVars, flightVars>>

ProjectNext == ProjectConversation \/ ProjectProfile

SpecProject == ProjectInit /\ [][ProjectNext]_vars

-----------------------------------------------------------------------------
(* Sign-up and login (apps.users) *)

Emails == {"test@example.com", "login@example.com"}
Passwords == {"Passw0rd!", "Secret1"}

MaxRefreshTokens == 4

\* a User row
Account(id, email, password, is_active) ==
    [id |-> id, email |-> email, password |-> password, is_active |-> is_active]

\* build_access_token: the payload of the token
build_access_token(user) == [user_id |-> user.id, role |-> "user", type |-> "access"]

\* UserSerializer(user).data with the access token added under "access_token"
AuthData(user) ==
    [ id |-> user.id, email |-> user.email, first_name |-> "Test", last_name |-> "User",
      date_joined |-> user.id, role |-> "user",
      access_token |-> build_access_token(user) ]

\* the store's tables play no part in a sign-up or a login
TablesUntouched ==
    UNCHANGED <<sessions, questions, responses, papers, nextPaperId, now, lastGenerated,
                engineVars, cvVars, flightVars>>

\* SignupView.create, for one request; the serializer rejects a blank password and
\* an email that is taken
Signup(email, password) ==
    /\ refresh_tokens < MaxRefreshTokens
    /\ IF password = "" \/ \E a \in accounts : a.email = email
       THEN /\ reply' = Reply(400, Detail)
            /\ UNCHANGED <<accounts, refresh_tokens>>
       ELSE LET user == Account(Cardinality(accounts) + 1, email, password, TRUE)
            IN  /\ accounts' = accounts \cup {user}
                /\ refresh_tokens' = refresh_tokens + 1
                /\ reply' = Reply(201, AuthData(user))
    /\ TablesUntouched

SignupView == \E email \in Emails, password \in Passwords \cup {""} : Signup(email, password)

\* authenticate(email=..., password=...): the active user with these credentials
Authenticated(email, password) ==
    { a \in accounts : a.email = email /\ a.password = password /\ a.is_active }

\* LoginView.post, for one request
Login(email, password) ==
    /\ refresh_tokens < MaxRefreshTokens
    /\ IF Authenticated(email, password) = {}
       THEN /\ reply' = Reply(400, Detail)
            /\ UNCHANGED refresh_tokens
       ELSE /\ refresh_tokens' = refresh_tokens + 1
            /\ reply' = Reply(200, AuthData(CHOOSE a \in Authenticated(email, password) : TRUE))
    /\ UNCHANGED accounts
    /\ TablesUntouched

LoginView == \E email \in Emails, password \in Passwords : Login(email, password)

\* nobody has signed up, or one user was created beforehand, active or not
UsersInit ==
    /\ apiKey = FALSE
    /\ IdleClient
    /\ EmptyStore
    /\ CvIdle
    /\ NoneInFlight
    /\ refresh_tokens = 0
    /\ accounts \in { {} }
                    \cup { { Account(1, "login@example.com", password, is_active) } :
                             password \in Passwords, is_active \in BOOLEAN }

UsersNext == SignupView \/ LoginView

SpecUsers == UsersInit /\ [][UsersNext]_vars
-----------------------------------------------------------------------------
(* Two requests served at the same time.  The views hold no lock and open no
   transaction, so the reads of one request and the writes of another can
   interleave: each request is split where its last read ends. *)

MaxRequests == 2      \* requests the model lets be sent

\* a turn request that has passed the checks and computed next_order
TurnInFlight(session_id, data, next_order) ==
    [ view |-> "turn", session_id |-> session_id, data |-> data,
      next_order |-> next_order, done |-> FALSE ]

\* a start request that has made its lookup: session is the row found, or Null,
\* and status the status that row had when it was read
StartInFlight(cv_id, paper_id, session, status) ==
    [ view |-> "start", cv |-> cv_id, paper |-> paper_id, session |-> session,
      status |-> status, done |-> FALSE ]

\* the request has been answered
Answered(request, response) ==
    [ view |-> request.view, done |-> TRUE, sent |-> request, reply |-> response ]

\* ConversationTurnView.post up to "next_order = ...": the checks and the read of
\* the session's last question
ReadTurn(user, session_id, data) ==
    /\ Len(inflight) < MaxRequests
    /\ IF session_id = NotInt \/ Strip(data.section) = "" THEN
            /\ reply' = Reply(400, Detail)
            /\ inflight' = inflight
       ELSE IF session_id \notin SessionIds THEN
            /\ reply' = Reply(404, Detail)
            /\ inflight' = inflight
       ELSE IF ~MayWrite(user, sessions[session_id]) THEN
            /\ reply' = Reply(403, Detail)
            /\ inflight' = inflight
       ELSE IF Strip(data.section) \notin DOMAIN SECTION_CATEGORY_MAP THEN
            /\ reply' = Reply(400, Detail)
            /\ inflight' = inflight
       ELSE /\ inflight' = Append(inflight,
                                  TurnInFlight(session_id, data, NextOrder(session_id)))
            /\ reply' = reply
    /\ UNCHANGED <<sessions, questions, responses, papers, nextPaperId, now,
                   lastGenerated, apiKey, clientVars, cvVars, userVars>>

\* the rest of ConversationTurnView.post: the classifier's verdict (or its
\* exception), then the two INSERTs with the next_order read before
WriteTurn(r, classification, db) ==
    LET request == inflight[r]
        response == TurnResponse(Len(questions) + 1, request.data, classification)
        answer == IF classification = Raised THEN Unhandled("AttributeError")
                  ELSE IF db # "ok" THEN Unhandled("DatabaseError")
                  ELSE Reply(201, [ question_id |-> response.question,
                                    response_id |-> Len(responses) + 1,
                                    status |-> response.status,
                                    confidence_level |-> response.confidence_level,
                                    extracted_skills |-> response.extracted_skills ])
    IN
    /\ request.view = "turn" /\ ~request.done
    /\ IF classification = Raised \/ db = "question_insert_fails"
       THEN UNCHANGED <<questions, responses, lastGenerated>>
       ELSE /\ Len(questions) < MaxTurns
            /\ questions' = Append(questions,
                   TurnQuestion(request.session_id, request.data, request.next_order))
            /\ lastGenerated' = Forget(request.session_id)
            /\ responses' = IF db = "response_insert_fails" THEN responses
                            ELSE Append(responses, response)
    /\ reply' = answer
    /\ inflight' = [inflight EXCEPT ![r] = Answered(request, answer)]
    /\ UNCHANGED <<sessions, papers, nextPaperId, now, apiKey, clientVars, cvVars, userVars>>

\* ConversationSessionStartView.post up to ".first()": the checks and the lookup
LookupSession(user, cv_id, paper_id) ==
    LET session == OpenSession(cv_id, paper_id)
    IN
    /\ Len(inflight) < MaxRequests
    /\ IF cv_id = NotInt \/ paper_id = NotInt THEN
            /\ reply' = Reply(400, Detail)
            /\ inflight' = inflight
       ELSE IF \/ cv_id \notin CVs
               \/ (~is_staff(user) /\ cv_user[cv_id] # user)
               \/ paper_id \notin CompetencePapers
               \/ paper_cv[paper_id] # cv_id THEN
            /\ reply' = Reply(404, Detail)
            /\ inflight' = inflight
       ELSE /\ inflight' = Append(inflight,
                   StartInFlight(cv_id, paper_id, session,
                                 IF session = Null THEN "" ELSE sessions[session].status))
            /\ reply' = reply
    /\ UNCHANGED <<sessions, questions, responses, papers, nextPaperId, now,
                   lastGenerated, apiKey, clientVars, cvVars, userVars>>

\* the rest of ConversationSessionStartView.post: create a session if the lookup
\* found none, else put the one it found in progress
CreateOrReuse(r) ==
    LET request == inflight[r]
        answer == Reply(200, [ session_id |-> IF request.session = Null
                                               THEN Len(sessions) + 1
                                               ELSE request.session,
                               status |-> "in_progress" ])
    IN
    /\ request.view = "start" /\ ~request.done
    /\ IF request.session = Null
       THEN /\ Len(sessions) < MaxSessions
            /\ now < MaxClock
            /\ now' = now + 1
            /\ sessions' = Append(sessions,
                   SessionRow(request.cv, request.paper, "in_progress", now'))
            /\ lastGenerated' = Append(lastGenerated, NoContent)
       ELSE /\ sessions' =
                  IF request.status # "in_progress"
                  THEN [sessions EXCEPT ![request.session].status = "in_progress",
                                        ![request.session].completed_at = Null]
                  ELSE sessions
            /\ UNCHANGED <<now, lastGenerated>>
    /\ reply' = answer
    /\ inflight' = [inflight EXCEPT ![r] = Answered(request, answer)]
    /\ UNCHANGED <<questions, responses, papers, nextPaperId, apiKey, clientVars, cvVars, userVars>>

TurnRequestArrives ==
    \E user \in Users, session_id \in RequestIds(SessionIds \cup {Len(sessions) + 1}),
       data \in TurnInputs :
        ReadTurn(user, session_id, data)

TurnRequestWrites ==
    \E r \in DOMAIN inflight :
        /\ inflight[r].view = "turn"
        /\ ~inflight[r].done
        /\ \E classification \in VerdictsFor(apiKey, inflight[r].data), db \in DbOutcomes :
              WriteTurn(r, classification, db)

StartRequestArrives ==
    \E user \in Users, cv_id \in RequestIds(CVs), paper_id \in RequestIds(CompetencePapers) :
        LookupSession(user, cv_id, paper_id)

StartRequestWrites == \E r \in DOMAIN inflight : CreateOrReuse(r)

ConcurrentInit ==
    /\ apiKey = FALSE
    /\ IdleClient
    /\ CvIdle
    /\ NoAccounts
    /\ NoneInFlight
    /\ StoreInit

ConcurrentNext ==
    \/ TurnRequestArrives
    \/ TurnRequestWrites
    \/ StartRequestArrives
    \/ StartRequestWrites

SpecConcurrent == ConcurrentInit /\ [][ConcurrentNext]_vars
-----------------------------------------------------------------------------
(* A run in which the recruiter answers every question with a completion phrase
   and the client passes back what the engine returned. *)

\* the answers of such a run: the completion phrases, as spoken or as transcribed
\* with a capital or with blanks around them
CompletionPhrases ==
    { completion_signals[i] : i \in DOMAIN completion_signals } \cup { "No", " That's all " }

\* the calls such a run can make: the canned question of a section, answered
DrivenCalls ==
    { [ history |-> <<AssistantItem(CannedQuestion(section_order[i])), RecruiterItem(Strip(a))>>,
        section |-> section_order[i] ] :
      i \in 2..Len(section_order), a \in CompletionPhrases }

\* what the engine decides before the LLM call in each of them, the service
\* configured
DrivenReturns == [ call \in DrivenCalls |-> BeforeLlm(call.history, call.section, TRUE) ]

\* BeforeLlm, looked up for the calls above
ReturnBeforeLlm(history, section, key) ==
    IF key /\ [history |-> history, section |-> section] \in DrivenCalls
    THEN DrivenReturns[[history |-> history, section |-> section]]
    ELSE BeforeLlm(history, section, key)

\* the run starts at the initial core_skills question, the LLM service configured
DrivenInit ==
    /\ EmptyStore
    /\ CvIdle
    /\ NoAccounts
    /\ NoneInFlight
    /\ apiKey = TRUE
    /\ eSection = "core_skills"
    /\ eHistory = <<AssistantItem(InitialCoreQuestion)>>
    /\ eLlm = NoLlm
    /\ eResult = NoCall
    /\ eDriven = TRUE
    /\ eVisited = << >>

\* voice_to_question, the transcribed answer being a completion phrase
AnswerWithCompletionPhrase ==
    /\ eResult = NoCall
    /\ Len(eHistory) < MaxHistory
    /\ \E a \in CompletionPhrases :
         LET transcribed_text == Strip(a)
             updated_history  == Append(eHistory, RecruiterItem(transcribed_text))
             early == ReturnBeforeLlm(updated_history, eSection, apiKey)
         IN  /\ transcribed_text # ""
             /\ eHistory' = updated_history
             /\ \E llm \in Met(early) :
                   /\ eResult' = AfterLlm(early, eSection, llm)
                   /\ eLlm' = llm
                   /\ Track(eDriven /\ IsExactCompletionPhrase(a), eResult')
    /\ UNCHANGED <<apiKey, eSection, storeVars, cvVars, userVars, flightVars>>

DrivenNext == AnswerWithCompletionPhrase \/ ClientAdopt

\* every request is answered and the client sends the next one
SpecDriven == DrivenInit /\ [][DrivenNext]_vars /\ WF_vars(DrivenNext)
-----------------------------------------------------------------------------
(* Claims about the interview store *)

\* a start request that passes the view's lookups: the user's own cv (any cv for
\* staff) and an original competence paper of that cv
StartAccepted(user, cv_id, paper_id) ==
    /\ cv_id \in CVs
    /\ paper_id \in CompetencePapers
    /\ (is_staff(user) \/ cv_user[cv_id] = user)
    /\ paper_cv[paper_id] = cv_id

\* the sessions of a (cv, paper) pair with a given set of statuses
SessionsOfPair(cv, paper, statuses) ==
    { i \in SessionIds : /\ sessions[i].cv = cv
                         /\ sessions[i].original_competence_paper = paper
                         /\ sessions[i].status \in statuses }

\* C2: for every session the question_order values of its stored questions are
\* exactly 1..N, N being the number of those questions, and a request that
\* stores a new question gives it 1 if the session had none and otherwise the
\* largest question_order of the session plus one.
C2_QuestionOrderIsOneToN ==
    /\ [](\A s \in SessionIds :
            { questions[q].question_order : q \in QuestionsOf(s) }
                = 1..Cardinality(QuestionsOf(s)))
    /\ [][Len(questions') > Len(questions) =>
            LET new  == questions'[Len(questions')]
                mine == QuestionsOf(new.session)
            IN  /\ Len(questions') = Len(questions) + 1
                /\ new.question_order =
                      IF mine = {} THEN 1
                      ELSE Max({ questions[q].question_order : q \in mine }) + 1]_vars

\* a session holds two questions, numbered 1 and 2
C2_Witness ==
    \E s \in SessionIds :
        /\ Cardinality(QuestionsOf(s)) = 2
        /\ { questions[q].question_order : q \in QuestionsOf(s) } = {1, 2}

\* C3: every (cv, paper) pair has at most one session that is not completed,
\* and an accepted start request for a pair that has a pending or in_progress
\* session creates no session and answers with that session's id and the
\* status in_progress, which is then the session's stored status.
C3_OneOpenSessionPerPair ==
    /\ [](\A cv \in CVs, paper \in CompetencePapers :
            Cardinality(SessionsOfPair(cv, paper, {"pending", "in_progress"})) <= 1)
    /\ [][\A user \in Users, cv \in CVs, paper \in CompetencePapers :
            ( /\ StartAccepted(user, cv, paper)
              /\ SessionsOfPair(cv, paper, {"pending", "in_progress"}) # {}
              /\ StartSession(user, cv, paper) )
            => /\ Len(sessions') = Len(sessions)
               /\ reply'.code = 200
               /\ reply'.body.session_id
                     \in SessionsOfPair(cv, paper, {"pending", "in_progress"})
               /\ reply'.body.status = "in_progress"
               /\ sessions'[reply'.body.session_id].status = "in_progress"]_vars

\* a start request was answered with a session that already holds a question
C3_Witness ==
    /\ reply.code = 200
    /\ DOMAIN reply.body = {"session_id", "status"}
    /\ reply.body.status = "in_progress"
    /\ QuestionsOf(reply.body.session_id) # {}
    /\ sessions[reply.body.session_id].status = "in_progress"

\* C4: no request changes the status of a completed session, and an accepted
\* start request never answers with a session that was completed; when the
\* pair has no pending or in_progress session it appends a new in_progress
\* session of the pair and answers with its id.
C4_CompletedStaysCompleted ==
    [][ /\ \A i \in SessionIds :
              sessions[i].status = "completed" =>
                  /\ i \in 1..Len(sessions')
                  /\ sessions'[i].status = "completed"
        /\ \A user \in Users, cv \in CVs, paper \in CompetencePapers :
              (StartAccepted(user, cv, paper) /\ StartSession(user, cv, paper))
              => /\ reply'.code = 200
                 /\ reply'.body.session_id
                       \notin SessionsOfPair(cv, paper, {"completed"})
                 /\ SessionsOfPair(cv, paper, {"pending", "in_progress"}) = {}
                       => /\ Len(sessions') = Len(sessions) + 1
                          /\ reply'.body.session_id = Len(sessions')
                          /\ sessions'[Len(sessions')].cv = cv
                          /\ sessions'[Len(sessions')].original_competence_paper = paper
                          /\ sessions'[Len(sessions')].status = "in_progress" ]_vars

\* a start request was answered with a new session of a pair whose earlier
\* session is completed
C4_Witness ==
    /\ reply.code = 200
    /\ DOMAIN reply.body = {"session_id", "status"}
    /\ \E i \in SessionIds :
          /\ i < reply.body.session_id
          /\ sessions[i].status = "completed"
          /\ sessions[i].cv = sessions[reply.body.session_id].cv
          /\ sessions[i].original_competence_paper
                = sessions[reply.body.session_id].original_competence_paper
          /\ sessions[reply.body.session_id].status = "in_progress"

\* C5: when a generate-paper request on a session follows another one with no
\* stored turn of the session and no edit of its paper in between, the content
\* it stores is exactly the content the earlier request stored, and the
\* session's paper holds that content.
C5_RegenerateStoresSameContent ==
    \A s \in SessionIds :
        (lastGenerated[s].stored /\ lastGenerated[s].before.stored)
        => /\ lastGenerated[s].content = lastGenerated[s].before.content
           /\ sessions[s].conversation_competence_paper # Null
                 => PaperById(sessions[s].conversation_competence_paper).content
                        = lastGenerated[s].before.content

\* a session's paper was generated twice in a row and is stored
C5_Witness ==
    \E s \in SessionIds :
        /\ lastGenerated[s].stored
        /\ lastGenerated[s].before.stored
        /\ sessions[s].conversation_competence_paper \in PaperIds
        /\ PaperById(sessions[s].conversation_competence_paper).content # ""

-----------------------------------------------------------------------------
(* Claims about the LLM call of the conversation engine, checked under SpecEngine *)

\* C11: when the LLM call fails in transport or its response cannot be parsed
\* (no choices, content that is not JSON, JSON that is not an object), the call
\* returns question "", the current section, complete_section true and done true,
\* and does not raise.
C11_LlmFailureEndsFlow ==
    eLlm.kind \in {"transport_error", "no_choices", "not_json", "not_object"}
        => eResult = Result("", eSection, TRUE, TRUE)

-----------------------------------------------------------------------------
(* Claims about the generated paper, checked under SpecPaper *)

\* the questions whose response has status not_confirmed
NotConfirmedTurns(qs, rs) ==
    { q \in 1..Len(qs) :
        \E r \in 1..Len(rs) : rs[r].question = q /\ rs[r].status = "not_confirmed" }

\* the id a question has once the questions in D are gone
Renumbered(q, D) == q - Cardinality({ d \in D : d < q })

\* the question rows without those in D, and the response rows without theirs
QuestionsWithout(qs, D) ==
    [ i \in 1..(Len(qs) - Cardinality(D)) |->
        qs[CHOOSE q \in (1..Len(qs)) \ D : Renumbered(q, D) = i] ]

ResponsesWithout(rs, D) ==
    LET Kept(r) == r.question \notin D
        kept == SelectSeq(rs, Kept)
    IN  [ i \in 1..Len(kept) |-> [kept[i] EXCEPT !.question = Renumbered(@, D)] ]

\* the text generate-paper builds from the log without its not_confirmed turns
TextWithoutNotConfirmed(session) ==
    TextContent(session,
                QuestionsWithout(questions, NotConfirmedTurns(questions, responses)),
                ResponsesWithout(responses, NotConfirmedTurns(questions, responses)))

\* C12: the content generated from a turn log equals the content generated from
\* the same log with every not_confirmed turn removed, for the text the view
\* builds and for the content it stored.
C12_NotConfirmedContributesNothing ==
    \A s \in SessionIds :
        /\ TextContent(s, questions, responses) = TextWithoutNotConfirmed(s)
        /\ lastGenerated[s].stored => lastGenerated[s].content = TextWithoutNotConfirmed(s)

\* a paper was generated from a log with a not_confirmed turn that has items
C12_Witness ==
    /\ lastGenerated[1].stored
    /\ \E q \in NotConfirmedTurns(questions, responses) :
          \E r \in ResponsesOf(q, responses) :
              /\ questions[q].section \in SectionKeys
              /\ ItemsToStore(questions[q], responses[r]) # << >>

\* the items of the turns of a session that go to one list of the paper (a section
\* key, or "additional_info" for the notes), turn after turn in question_order
RECURSIVE ItemsInOrder(_, _)
ItemsInOrder(order, key) ==
    IF order = << >> THEN << >>
    ELSE (IF /\ questions[Head(order)].section = key
             /\ ResponsesOf(Head(order), responses) # {}
             /\ responses[CHOOSE r \in ResponsesOf(Head(order), responses) : TRUE].status
                   # "not_confirmed"
          THEN ItemsToStore(questions[Head(order)],
                            responses[CHOOSE r \in ResponsesOf(Head(order), responses) : TRUE])
          ELSE << >>)
         \o ItemsInOrder(Tail(order), key)

TurnItems(session, key) == ItemsInOrder(SessionOrder(session, questions), key)

\* the list the paper has for the key
PaperList(collected, key) ==
    IF key = "additional_info" THEN collected.additional_notes
    ELSE collected.section_items[key]

\* the positions of a list of items that hold the first occurrence of an item,
\* compared in lower case
FirstSeen(all) ==
    { k \in DOMAIN all : \A j \in 1..(k - 1) : Lower(all[j]) # Lower(all[k]) }

\* list holds the items of all at the positions K, in the order of the positions
IsSelection(list, all, K) ==
    /\ Len(list) = Cardinality(K)
    /\ \A i \in DOMAIN list :
          \E k \in K : /\ Cardinality({ j \in K : j < k }) = i - 1
                       /\ list[i] = all[k]

\* no two items are equal in lower case, and the items are those of the turns at
\* their first occurrence, in that order
DeduplicatedInOrder(list, all) ==
    /\ \A i, j \in DOMAIN list : i # j => Lower(list[i]) # Lower(list[j])
    /\ IsSelection(list, all, FirstSeen(all))

\* what generate-paper collects for a session
CollectedOf(session) ==
    Collect(SessionOrder(session, questions), questions, responses, NothingCollected)

\* the lists agree with the turn log
ListsDeduplicated(collected, session) ==
    \A key \in SectionKeys \cup {"additional_info"} :
        DeduplicatedInOrder(PaperList(collected, key), TurnItems(session, key))

\* C13: within each section of the generated paper and within the additional
\* notes, no two items are equal when compared case-insensitively, and the items
\* are in the order of their first occurrence in the turns read in question_order;
\* the later duplicate is dropped and the earlier item is kept as it was.
C13_ItemsDeduplicatedInOrder ==
    \A s \in SessionIds :
        /\ ListsDeduplicated(CollectedOf(s), s)
        /\ lastGenerated[s].stored => lastGenerated[s].content = PaperOf(CollectedOf(s))

\* a paper was generated from turns that name Java in two spellings in one section
\* and German in two spellings in one answer: the first spelling is in the paper
C13_Witness ==
    /\ lastGenerated[1].stored
    /\ TurnItems(1, "core_skills") = << "Java", "JAVA" >>
    /\ TurnItems(1, "additional_info") = << "German", "german" >>
    /\ Contains(lastGenerated[1].content, "- Java\n")
    /\ ~Contains(lastGenerated[1].content, "JAVA")
    /\ ~Contains(lastGenerated[1].content, "german")

\* the turns of a session yield no item
NoItems(session) ==
    \A key \in SectionKeys \cup {"additional_info"} : TurnItems(session, key) = << >>

\* C14: a generate-paper request on a session whose turns yield no confirmed or
\* new item is rejected (400 for a user who may write to the session), and papers
\* and sessions stay as they are.
C14_EmptyPaperRejected ==
    [][ \A user \in Users, s \in SessionIds :
          (NoItems(s) /\ GeneratePaper(user, s))
             => /\ reply'.code = IF MayWrite(user, sessions[s]) THEN 400 ELSE 403
                /\ papers' = papers
                /\ sessions' = sessions ]_vars

\* a request on a session with an accepted turn that yields no item was rejected
C14_Witness ==
    /\ reply.code = 400
    /\ papers = {}
    /\ sessions[1].status = "in_progress"
    /\ sessions[1].conversation_competence_paper = Null
    /\ NoItems(1)
    /\ \E r \in 1..Len(responses) : responses[r].status = "new_skill"

-----------------------------------------------------------------------------
(* Claims about the stored paper, the session and the turns, checked under Spec *)

\* the papers of a session
PapersOf(session) == { p \in papers : p.conversation_session = session }

\* a generate-paper request stored a paper in this step: timezone.now() is read by
\* the start view when it creates a session and by generate-paper when it completes
\* one
PaperStored == now' # now /\ Len(sessions') = Len(sessions)

\* C15: with requests handled one at a time, a session has at most one
\* conversation competence paper; a successful generate-paper request leaves the
\* session completed, completed_at set and the paper reference on the paper it
\* returns, and when the session had a paper it overwrites that paper's content
\* and creates no other.
C15_OnePaperPerSession ==
    /\ [](\A s \in SessionIds : Cardinality(PapersOf(s)) <= 1)
    /\ [][ PaperStored =>
             \E s \in SessionIds :
               LET before == sessions[s].conversation_competence_paper
                   after  == sessions'[s].conversation_competence_paper
               IN  /\ reply'.code = 200
                   /\ reply'.body.session_id = s
                   /\ sessions'[s].status = "completed"
                   /\ sessions'[s].completed_at = now'
                   /\ after # Null
                   /\ reply'.body.id = after
                   /\ \E p \in papers' : /\ p.id = after
                                         /\ p.conversation_session = s
                                         /\ p.content = reply'.body.content
                   /\ before # Null =>
                         /\ after = before
                         /\ { p.id : p \in papers' } = { p.id : p \in papers } ]_vars

\* a second generate-paper request overwrote the one paper of a completed session
C15_Witness ==
    \E s \in SessionIds :
        /\ lastGenerated[s].stored
        /\ lastGenerated[s].before.stored
        /\ sessions[s].status = "completed"
        /\ sessions[s].completed_at # Null
        /\ Cardinality(PapersOf(s)) = 1
        /\ \A p \in PapersOf(s) : /\ p.id = sessions[s].conversation_competence_paper
                                  /\ p.content = lastGenerated[s].content

\* C16: a generate-paper request on a session that is already completed changes
\* neither its completed_at nor the content of its stored paper.
C16_CompletionWrittenOnce ==
    [][ \A s \in SessionIds :
          sessions[s].status = "completed"
             => /\ sessions'[s].completed_at = sessions[s].completed_at
                /\ PaperStored => \A p \in PapersOf(s) : p \in papers' ]_vars

\* C17: no request changes or removes a stored turn: every question row and every
\* response row stays as it was created, and new rows come after them.
C17_TurnsImmutable ==
    [][ /\ Len(questions') >= Len(questions)
        /\ Len(responses') >= Len(responses)
        /\ \A q \in 1..Len(questions) : questions'[q] = questions[q]
        /\ \A r \in 1..Len(responses) : responses'[r] = responses[r] ]_vars

\* a session that holds two turns was completed and its paper was then deleted
C17_Witness ==
    \E s \in SessionIds :
        /\ Cardinality(QuestionsOf(s)) = 2
        /\ \E q \in QuestionsOf(s) : ResponsesOf(q, responses) # {}
        /\ sessions[s].status = "completed"
        /\ sessions[s].conversation_competence_paper = Null
        /\ reply = Reply(200, Detail)

-----------------------------------------------------------------------------
(* Claims about classify_recruiter_answer, checked under SpecClassify *)

\* the row of the question a response answers
QuestionOf(r) == questions[responses[r].question]

\* the turn view stored the verdict of a classifier call in this state
VerdictStored == reply.code = 201

\* the response row that holds it
LastVerdict == responses[Len(responses)]

\* C18: for every section other than recommendations, no element of the returned
\* extracted_skills is, trimmed and in lower case, one of the completion phrases.
C18_NoCompletionPhraseExtracted ==
    (VerdictStored /\ QuestionOf(Len(responses)).section # "recommendations")
        => \A i \in DOMAIN LastVerdict.extracted_skills :
              ~InList(Strip(Lower(LastVerdict.extracted_skills[i])),
                      classify_completion_signals)

\* C19: for the recommendations section and a non-empty answer, the returned
\* extracted_skills hold exactly one item, the full answer text.
C19_RecommendationsVerbatim ==
    ( /\ VerdictStored
      /\ QuestionOf(Len(responses)).section = "recommendations"
      /\ LastVerdict.answer_text # "" )
        => LastVerdict.extracted_skills = << LastVerdict.answer_text >>

\* C20: every returned verdict with status confirmed, partially_confirmed or
\* new_skill has confidence_level medium or high, on the LLM path and on both
\* heuristic paths.
C20_AcceptedNeverLow ==
    \A r \in 1..Len(responses) :
        responses[r].status \in {"confirmed", "partially_confirmed", "new_skill"}
            => responses[r].confidence_level \in {"medium", "high"}

\* the LLM gave an accepted status with low confidence and the verdict was stored
\* with medium; a heuristic verdict was stored as well
C20_Witness ==
    /\ VerdictStored
    /\ LastVerdict.notes = "confidence: low"
    /\ LastVerdict.status = "confirmed"
    /\ LastVerdict.confidence_level = "medium"
    /\ \E r \in 1..Len(responses) :
          /\ responses[r].notes = "Heuristic classification after OpenAI failure."
          /\ responses[r].status = "new_skill"

-----------------------------------------------------------------------------
(* Further claims about classify_recruiter_answer, checked under SpecClassify *)

\* the notes of the two heuristic verdicts
HeuristicNotes ==
    { "Rule-based classification (no OpenAI API).",
      "Heuristic classification after OpenAI failure." }

\* the heuristic as the specification words it: new_skill in additional_info for an
\* answer that is no completion phrase, else by the negative and affirmative tokens
StatedHeuristic(answer, section_key) ==
    IF section_key = "additional_info" /\ answer # ""
          /\ ~InList(Strip(Lower(answer)), classify_completion_signals)
    THEN "new_skill"
    ELSE IF ContainsAny(Lower(answer), negative_tokens) THEN "not_confirmed"
    ELSE IF ContainsAny(Lower(answer), affirmative_tokens) THEN "confirmed"
    ELSE "partially_confirmed"

\* C21: classify_recruiter_answer never raises, whatever the LLM call comes to, and
\* when the LLM is unavailable the verdict's status is the heuristic's:
\* not_confirmed for a negative token, else confirmed for an affirmative token, else
\* partially_confirmed, and new_skill in additional_info for a non-empty answer that
\* is no completion phrase.
C21_ClassifierNeverRaises ==
    /\ reply # Unhandled("AttributeError")
    /\ \A r \in 1..Len(responses) :
          responses[r].notes \in HeuristicNotes
             => responses[r].status
                   = StatedHeuristic(responses[r].answer_text, QuestionOf(r).section)

-----------------------------------------------------------------------------
(* Further claims about the interview store, checked under Spec *)

\* the step leaves the tables as they are
TablesUnchanged == UNCHANGED <<sessions, questions, responses, papers, nextPaperId>>

\* the user neither owns the CV of the session nor is staff
Stranger(user, session) == cv_user[sessions[session].cv] # user /\ ~is_staff(user)

\* C22: a turn, generate-paper, paper-edit or paper-delete request of a user who
\* neither owns the session's CV nor is staff is rejected and changes no table: no
\* turn is appended, no session field changes, no paper is created, modified or
\* deleted.
C22_StrangerChangesNothing ==
    [][ \A user \in Users :
          /\ \A s \in SessionIds :
                /\ \A data \in TurnInputs :
                      (Stranger(user, s) /\ PostTurn(user, s, data))
                          => (TablesUnchanged /\ reply'.code \in {400, 403})
                /\ (Stranger(user, s) /\ GeneratePaper(user, s))
                      => (TablesUnchanged /\ reply'.code = 403)
          /\ \A paper_id \in PaperIds :
                /\ \A data \in EditContents :
                      ( /\ Stranger(user, PaperById(paper_id).conversation_session)
                        /\ PatchPaper(user, paper_id, data) )
                          => (TablesUnchanged /\ reply'.code = 403)
                /\ ( /\ Stranger(user, PaperById(paper_id).conversation_session)
                     /\ DeletePaper(user, paper_id) )
                      => (TablesUnchanged /\ reply'.code = 403) ]_vars

\* a request was refused for want of permission while a session with a turn and a
\* paper exists
C22_Witness ==
    /\ reply.code = 403
    /\ papers # {}
    /\ \E s \in SessionIds : QuestionsOf(s) # {} /\ Stranger("bob", s)

-----------------------------------------------------------------------------
(* A further claim about the turn view and the classifier, under SpecClassify *)

\* C23: a turn whose answer is detected as not being in the configured language is
\* rejected: no ConversationResponse row holds such an answer, and the request is
\* not answered with 201.
C23_ForeignAnswerNotStored ==
    \A r \in 1..Len(responses) : ~LooksNonEnglish(responses[r].answer_text)

\* the fields of a structured CV that hold lists
ListFields ==
    {"languages", "skills", "work_experience", "education", "projects", "courses",
     "certifications"}

\* C24: whatever the CV text and whatever the call of the LLM came to (unavailable,
\* output that is no JSON, an object with members missing or of the wrong type),
\* generate_structured_cv returns a dict whose profile is a string and in which
\* languages, skills, work_experience, education, projects, courses and
\* certifications are all present and are lists
C24_StructuredCvShaped ==
    cvResult # NoCall =>
        /\ cvResult.kind = "dict"
        /\ cvResult.profile.type = "str"
        /\ \A k \in ListFields : k \in DOMAIN cvResult /\ cvResult[k].type = "list"

\* a structure was returned for an object whose languages are no list
C24_Witness ==
    /\ cvResult # NoCall
    /\ cvLlm.kind = "object"
    /\ Get(cvLlm.data, "languages").type = "dict"
    /\ cvResult.profile = JStr("Developer")
    /\ cvResult.languages = NoItemsList

\* no two entries of the list are equal but for their case
NoCaseDuplicates(skills) ==
    \A i, j \in DOMAIN skills :
        i # j => Lower(skills[i].value) # Lower(skills[j].value)

\* C25: the skills of every structure generate_structured_cv returns hold no two
\* entries that are equal case-insensitively, on the LLM path as on the heuristic
\* path
C25_SkillsDeduplicated ==
    cvResult # NoCall => NoCaseDuplicates(cvResult.skills.items)

\* C26: when the output of the LLM for a CV text that is not empty cannot be parsed
\* as a JSON object, generate_structured_cv returns the empty structure: profile ""
\* and every list empty
C26_UnparsedGivesEmpty ==
    (cvResult # NoCall /\ Strip(cvText) # "" /\ cvLlm.kind \in {"no_braces", "bad_json"})
        => cvResult = EmptyStructure

\* the headers of the paper text, in the order the claim gives
PaperHeaders ==
    << "Our Recommendation", "Core Skills", "Soft Skills", "Languages", "Education",
       "Trainings & Certifications", "Technical Competencies", "Project Experience",
       "Additional Information from Interview" >>

IsHeader(line) == \E h \in DOMAIN PaperHeaders : PaperHeaders[h] = line

HeaderIndex(line) == CHOOSE h \in DOMAIN PaperHeaders : PaperHeaders[h] = line

\* the headers among the lines come in the fixed order
HeadersInOrder(lines) ==
    \A i, j \in DOMAIN lines :
        (i < j /\ IsHeader(lines[i]) /\ IsHeader(lines[j]))
            => HeaderIndex(lines[i]) < HeaderIndex(lines[j])

\* every header is followed at once by as many dashes as it has characters
HeadersUnderlined(lines) ==
    \A i \in DOMAIN lines :
        IsHeader(lines[i])
            => i < Len(lines) /\ lines[i + 1] = Repeat("-", Len(lines[i]))

PaperLaidOut(lines) == HeadersInOrder(lines) /\ HeadersUnderlined(lines)

\* C27: the text generate-paper stores lists its sections in the fixed order Our
\* Recommendation, Core Skills, Soft Skills, Languages, Education, Trainings &
\* Certifications, Technical Competencies, Project Experience, Additional
\* Information from Interview, and every header line is followed at once by a line
\* of dashes as long as the header
C27_PaperLayout ==
    \A s \in DOMAIN lastGenerated :
        lastGenerated[s].stored => PaperLaidOut(SplitOn(lastGenerated[s].content, "\n"))

\* the reply of an export of the text generate-paper stored for session 1
ExportedGenerated ==
    /\ reply.code = 200
    /\ "parsed" \in DOMAIN reply.body
    /\ lastGenerated[1].stored
    /\ \E p \in papers : p.content = lastGenerated[1].content

\* the parsed lists are the lists that were collected
Recovered(parsed, collected) ==
    /\ \A key \in SectionKeys \ {"recommendations"} :
          parsed[key] = collected.section_items[key]
    /\ parsed.additional_notes = collected.additional_notes

\* C28: parsing the text of a generated paper in the PDF export gives back, for
\* every section, the list of items the generator wrote under that header, in the
\* same order, also for items that contain hyphens
C28_ExportRecoversItems ==
    ExportedGenerated => Recovered(reply.body.parsed, CollectedOf(1))

\* a sentence boundary of the text lies within the limit
BoundaryFits(text, limit) == Len(Head(Sentences(text))) <= limit

\* the result ends where one of the sentences of the text ends
EndsAtBoundary(result, text) ==
    \E n \in 1..Len(Sentences(text)) :
        EndsWith(result, Sentences(text)[n]) /\ Sentences(text)[n] # ""

\* C29: for a recommendation longer than the limit, the projected recommendation
\* is not empty and has at most 550 characters; it ends at a complete sentence when
\* a sentence boundary fits within the limit, and otherwise it is the first 547
\* characters of the text followed by "..."
C29_RecommendationLimited ==
    (recResult # NoCall /\ recResult.by = "conversation" /\ Len(recText) > ConversationLimit)
        => /\ recResult.recommendation # ""
           /\ Len(recResult.recommendation) <= 550
           /\ IF BoundaryFits(recText, ConversationLimit)
              THEN EndsAtBoundary(recResult.recommendation, recText)
              ELSE recResult.recommendation = SubSeq(recText, 1, 547) \o "..."

\* the user may edit the paper: the owner of its session's CV, or staff
Editor(user, paper) ==
    cv_user[sessions[paper.conversation_session].cv] = user \/ is_staff(user)

\* the content of the paper with this id after the step
ContentAfter(paper_id) == (CHOOSE p \in papers' : p.id = paper_id).content

\* the original statement of C30: after an edit request with non-empty content the
\* stored content equals the text that was sent
C30_EditStoredAsSent ==
    [][ \A user \in Users, paper_id \in PaperIds, data \in EditContents :
          (Editor(user, PaperById(paper_id)) /\ data # "" /\ PatchPaper(user, paper_id, data))
             => ContentAfter(paper_id) = data ]_vars

\* C30: after an edit request whose content is not blank, the paper's stored
\* content is the edited text without the white space around it, and it stays so
\* until the next edit or the next successful generate-paper request for its
\* session, after which it is the text the generator builds; an edit request with
\* blank content is rejected with 400 and leaves the content as it was
C30_EditPersists ==
    [][ /\ \A user \in Users, paper_id \in PaperIds, data \in EditContents :
              (Editor(user, PaperById(paper_id)) /\ PatchPaper(user, paper_id, data))
                 => IF Strip(data) # ""
                    THEN /\ reply'.code = 200
                         /\ \E p \in papers' : p.id = paper_id
                         /\ ContentAfter(paper_id) = Strip(data)
                    ELSE reply'.code = 400 /\ papers' = papers
        /\ \A p \in papers, q \in papers' :
              (p.id = q.id /\ p.content # q.content)
                 => \/ /\ PaperStored
                       /\ q.content = TextContent(p.conversation_session, questions, responses)
                    \/ \E user \in Users, data \in EditContents :
                          /\ PatchPaper(user, p.id, data)
                          /\ q.content = Strip(data) ]_vars

\* a generated paper holds the text of an edit
C30_Witness ==
    \E p \in papers :
        /\ p.content = "Core Skills\n-----------\n- Kotlin"
        /\ reply = Reply(200, PaperData(p))
        /\ sessions[p.conversation_session].status = "completed"
        /\ ~lastGenerated[p.conversation_session].stored

\* the item opens a project record: it is tagged ROLE: or has no tag
OpensRecord(item) == ~StartsWith(item, "DESC:") /\ ~StartsWith(item, "TIME:")

\* one record for each ROLE: item and each untagged item, none for DESC: and TIME:
OneRecordPerRole(records, project_items) ==
    /\ Len(records) = Len(SelectSeq(project_items, OpensRecord))
    /\ \A i \in DOMAIN records : OpensRecord(records[i])

\* C31: a paper generated from project_experience turns whose items are tagged
\* ROLE:, DESC: and TIME: has one project record for each ROLE: item, the DESC: and
\* TIME: items being attached to a ROLE: item, and one for each untagged item
C31_ProjectRecords ==
    lastGenerated[1].stored
        => OneRecordPerRole(
              format_project_experience(CollectedOf(1).section_items["project_experience"]),
              CollectedOf(1).section_items["project_experience"])

\* the section after `current` in the engine's fixed order; additional_info after
\* the last one and for a section that is not in the list
NextInOrder(current) ==
    IF InList(current, section_order) /\ IndexOf(current, section_order) < Len(section_order)
    THEN section_order[IndexOf(current, section_order) + 1]
    ELSE "additional_info"

\* C32: when the engine advances on a response that reports the section complete,
\* the section it returns is the one right after the current section in the fixed
\* order, and additional_info when the current section is the last of the list or is
\* not in the list
C32_AdvanceToNextInOrder ==
    (eResult.kind = "result" /\ eLlm.kind = "object" /\ eLlm.complete_section)
        => eResult.section = NextInOrder(eSection)

\* C33: in every reachable state a session references a conversation competence
\* paper exactly when its status is completed
C33_PaperIffCompleted ==
    \A s \in SessionIds :
        (sessions[s].conversation_competence_paper # Null)
            <=> (sessions[s].status = "completed")

\* the reply of a successful sign-up or login
SignedIn == reply.code \in {200, 201} /\ "email" \in DOMAIN reply.body

\* C34: a successful sign-up returns 201 and a successful login 200, and in both
\* cases the body holds a field named token together with the user's email
C34_TokenInAuthReply ==
    SignedIn
        => /\ "token" \in DOMAIN reply.body
           /\ \E a \in accounts : a.email = reply.body.email

\* the question_order values of the session's turns are 1..N, each used once
OrdersInSequence(session) ==
    /\ \A p, q \in QuestionsOf(session) :
          p # q => questions[p].question_order # questions[q].question_order
    /\ { questions[q].question_order : q \in QuestionsOf(session) }
          = 1..Cardinality(QuestionsOf(session))

\* C35: when two turn requests for one session are served at the same time, both
\* reading the last question_order before either stores its question, the turns
\* of the session still have distinct question_order values forming 1..N
C35_OrdersDistinct == \A session \in SessionIds : OrdersInSequence(session)

\* the sessions of the pair that are not completed
OpenSessionsOf(cv, paper) ==
    { i \in SessionIds : /\ sessions[i].cv = cv
                         /\ sessions[i].original_competence_paper = paper
                         /\ sessions[i].status # "completed" }

\* both requests are start requests for the same pair and both were answered
StartedTogether(a, b) ==
    /\ a.view = "start" /\ b.view = "start"
    /\ a.done /\ b.done
    /\ a.sent.cv = b.sent.cv /\ a.sent.paper = b.sent.paper

\* C36: when two start requests for one (cv, original paper) pair are served at
\* the same time, their lookups and creates interleaved in any order, the pair
\* has at most one session that is not completed and both requests are answered
\* with the same session id
C36_OneOpenSession ==
    \A r1, r2 \in DOMAIN inflight :
        StartedTogether(inflight[r1], inflight[r2]) =>
            /\ Cardinality(OpenSessionsOf(inflight[r1].sent.cv, inflight[r1].sent.paper)) <= 1
            /\ inflight[r1].reply.body.session_id = inflight[r2].reply.body.session_id

\* C37: for every LLM response and every current section the turn store accepts
\* (recommendations too), the section the engine returns is the current section
\* or the one right after it in the fixed order: never an earlier one, never one
\* more than a step ahead
C37_SectionMovesOneStep ==
    (eResult.kind = "result" /\ eSection \in DOMAIN SECTION_CATEGORY_MAP)
        => eResult.section \in {eSection, NextInOrder(eSection)}

\* no section occurs twice in the list
AllDistinct(list) == \A i, j \in DOMAIN list : i # j => list[i] # list[j]

\* the call has returned done=true in additional_info
ReturnedDone ==
    /\ eResult.kind = "result"
    /\ eResult.done
    /\ eResult.section = "additional_info"

DrivenStepwise ==
    /\ eDriven
    /\ Len(eVisited) <= Len(section_order) - 1
    /\ eResult # NoCall =>
          /\ eResult.kind = "result"
          /\ eLlm = NoLlm
          /\ IF eResult.done
             THEN /\ eResult.section = "additional_info"
                  /\ eSection = "additional_info"
                  /\ AllDistinct(SubSeq(eVisited, 1, Len(eVisited) - 1))
             ELSE /\ eResult.section = NextInOrder(eSection)
                  /\ eSection # "additional_info"
                  /\ AllDistinct(eVisited)

C39_TurnStoredWhole ==
    \A q \in 1..Len(questions) : Cardinality(ResponsesOf(q, responses)) = 1

\* the turns of the session in the given table
TurnsIn(qs, session) == { q \in 1..Len(qs) : qs[q].session = session }

\* C40: no turn is appended to a completed session: a turn request for it is
\* rejected and its turn log stays as it was at completion
C40_NoTurnAfterCompletion ==
    [][ \A s \in SessionIds :
            sessions[s].status = "completed"
                => TurnsIn(questions', s) = TurnsIn(questions, s) ]_vars

=============================================================================
